---- MODULE Spec2Model ----
(***************************************************************************)
(* Model of the Transactor of hyperledger-burrow (execution/transactor.go) *)
(* together with the collaborators it drives: the mempool signing          *)
(* accounts, the event emitter and the consensus mempool.                  *)
(*                                                                         *)
(* Every caller p in Procs makes one call of BroadcastTxSync,              *)
(* BroadcastTxAsync or SignTx; pc[p] is the position of the call in the    *)
(* code of transactor.go.                                                  *)
(*                                                                         *)
(* The other components have specifications of their own over the same     *)
(* variables:                                                              *)
(*   RpcSpec       the transactServer of rpc/rpctransact in front of the   *)
(*                 Transactor                                              *)
(*   SimSpec       CallTxSim and CallCodeSim under the server's lock       *)
(*   KVSpec        the KVCache driven by one caller                        *)
(*   KVRaceSpec    concurrent readers of the KVCache                       *)
(*   ProposalSpec  the proposal cache driven by one caller                 *)
(*   ReplicaSpec   two proposal caches that are given the same mutations   *)
(*   ProposalRaceSpec  the proposal cache under concurrent callers         *)
(*   BondSpec      BondContext.Execute on any state                        *)
(*   SignSpec      concurrent SignTxMempool calls on shared accounts       *)
(*   ConcSpec      the proposal cache with its locks                       *)
(*   HeldSpec      the KVCache and an iterator that is consumed later      *)
(***************************************************************************)
EXTENDS Integers, Sequences, FiniteSets, TLC

\* ---------------------------------------------------------------- bounds
MaxInitSeq == 1

\* the concurrent callers
Procs == {1, 2}
Addrs == {"a", "b"}
\* the inputs of a transaction: the addresses of its TxInputs, in order
InputLists == {<<"a">>, <<"b">>, <<"a", "b">>, <<"b", "a">>}
Ops == {"BroadcastTxSync", "BroadcastTxAsync", "SignTx"}

\* ------------------------------------------------------------- constants
SubscribeBufferSize == 10
ResponseChSize == 3
TxExecutionSuccessCode == 0
\* the codes a CheckTx response can carry other than success
ErrorCodes == {1, 2}
\* the exception a TxExecution can carry: none, a revert, another fault
Exceptions == {"none", "ExecutionReverted", "Other"}

NoHash == <<>>
NoSub == [query |-> NoHash, buf |-> <<>>, open |-> FALSE]
NoLog == <<>>
NoResult ==
    [kind |-> "none", code |-> 0, log |-> NoLog, hash |-> NoHash,
     exc |-> "none"]
NoCall == [op |-> "none", inputs |-> <<>>, presigned |-> FALSE]

VARIABLES
    pc,          \* position of each call
    call,        \* the call: operation, inputs of the tx, signed by client?
    seqs,        \* input.Sequence of every input of the caller's envelope
    signed,      \* len(txEnv.Signatories) > 0
    txHash,      \* the hash cached in the Tx (NoHash: not computed yet)
    idx,         \* loop index of SignTxMempool
    unlockers,   \* addresses whose unlock SignTxMempool has collected
    once,        \* the unlock returned by MaybeSignTxMempool
    result,      \* what the call returned
    receipt,     \* checkTxReceipt of BroadcastTxSync
    lock,        \* the signing-account lock of each address (0: free)
    mseq,        \* sequence of each account in the mempool (pending) state
    cseq,        \* sequence of each account in the committed state
    seq0,        \* the sequence every account started with
    subs,        \* the emitter's subscriptions, by subscription id
    txStatus,    \* the caller's tx in the consensus mempool
    responseCh,  \* responseCh of CheckTxSyncRaw
    unlockCalls, \* how often the unlock of MaybeSignTxMempool was called
    unlockRuns,  \* how often the unlock of SignTxMempool ran
    fatal,       \* an unlocked mutex was unlocked (fatal error in Go)
    \* ---- transactServer (rpc/rpctransact)
    param,       \* the TxEnvelopeParam of the caller's request
    txEnv,       \* what param.GetEnvelope returned to the handler
    ctxTimeout,  \* the timeout the handler gave context.WithTimeout
    tsLock,      \* ts.lock (0: free, else the simulation that holds it)
    sim,         \* the simulation calls
    \* ---- KVCache
    kvCache,     \* kvc.cache
    kvKeys,      \* kvc.keys
    kvLast,      \* the last call on the cache and what it returned
    kvWasReset,  \* Reset has been called since NewKVCache
    kvReaders,   \* the Iterator calls that are under the shared lock
    \* ---- proposal.Cache
    proposals,   \* cache.proposals
    backend,     \* cache.backend
    propLast,    \* the last call on the cache and what it returned
    propRemoved, \* hashes whose RemoveProposal succeeded since Reset
    replica,     \* which of two Caches over the same backend proposals
                 \* is, what the two were given and what their Sync wrote
    \* ---- BondContext (execution/contexts)
    accounts,    \* ctx.State: the account stored at each address
    validators,  \* ctx.ValidatorSet: the power of each public key
    bondLast,    \* the last Execute and what it returned
    bondHist,    \* the state Execute started from, and the successful bonds
    \* ---- proposal.Cache under concurrent callers
    raceMap,     \* cache.proposals: the *proposalInfo of each hash (0: nil)
    raceHeap,    \* the proposalInfo values that were allocated
    raceLock,    \* the caller that holds cache.Lock (0: none)
    raceCalls,   \* the concurrent calls and their position in the code
    raceGen,     \* the generation of the cache, and the backend reads
                 \* that returned a proposal in it, by hash
    \* ---- proposal.Cache with its locks
    conc,        \* the cache, the RWMutex of the cache and of every
                 \* proposalInfo, and the concurrent calls
    \* ---- KVCache and an iterator that is kept
    held         \* the cache, the array behind kvc.keys and an iterator
                 \* that its caller has not consumed yet

transactorVars ==
    <<pc, call, seqs, signed, txHash, idx, unlockers, once,
      result, receipt, lock, mseq, cseq, seq0, subs, txStatus,
      responseCh, unlockCalls, unlockRuns, fatal>>
serverVars == <<param, txEnv, ctxTimeout>>
simVars == <<tsLock, sim>>
kvVars == <<kvCache, kvKeys, kvLast, kvWasReset, kvReaders>>
propVars == <<proposals, backend, propLast, propRemoved>>
bondVars == <<accounts, validators, bondLast, bondHist>>
\* what only the specifications of the later sections touch
raceVars == <<raceMap, raceHeap, raceLock, raceCalls, raceGen>>
moreVars == <<bondVars, raceVars, conc, held>>
\* what no step of the Transactor touches
otherVars == <<simVars, kvVars, propVars, replica, moreVars>>

vars == <<transactorVars, serverVars, simVars, kvVars, propVars, replica,
          moreVars>>

callVars == <<call, seqs, signed, txHash, idx>>
lockVars == <<lock, unlockers, once, unlockCalls, unlockRuns, fatal>>
chainVars == <<mseq, cseq, seq0, txStatus, responseCh>>

Range(s) == {s[i] : i \in 1 .. Len(s)}

\* ------------------------------------------- the values of the RPC server
\* ts.transactor.BlockchainInfo.ChainID()
ChainID == "chain"
\* the chain id a prebuilt envelope can carry: this chain's or another's
ChainIDs == {"chain", "other"}
\* time in units of half an hour: time.Hour
maxBroadcastSyncTimeout == 2
\* param.Timeout of a request: none, below, at and above the maximum
Timeouts == {0, 1, 2, 3}
\* the inputs of the transactions sent through the RPC server
RpcInputLists == {<<"a">>, <<"a", "b">>}
\* the callers of the RPC handlers in front of the Transactor
RpcProcs == {1}

\* a nil *txs.Envelope, a nil *payload.Any, a nil *TxEnvelopeParam
NoEnvelope ==
    [nil |-> TRUE, chainID |-> "", inputs |-> <<>>, signed |-> FALSE]
NoPayload == [nil |-> TRUE, inputs |-> <<>>]
NoParam ==
    [nil |-> TRUE, envelope |-> NoEnvelope, payload |-> NoPayload,
     timeout |-> 0]
\* no context.WithTimeout was made
NoDeadline == [set |-> FALSE, d |-> 0]

Envelopes ==
    {NoEnvelope} \cup
    [nil : {FALSE}, chainID : ChainIDs, inputs : RpcInputLists,
     signed : BOOLEAN]
Payloads == {NoPayload} \cup [nil : {FALSE}, inputs : RpcInputLists]
\* the requests a client can send
Params ==
    [nil : {FALSE}, envelope : Envelopes, payload : Payloads,
     timeout : Timeouts]

\* the callers of CallTxSim and CallCodeSim
SimCallers == {1, 2, 3}
SimOps == {"CallTxSim", "CallCodeSim"}
NoSim == [pc |-> "idle", op |-> "none", ret |-> "none"]

\* ------------------------------------------------ the values of KVCache
\* the longest kvc.keys the model lets Set and Delete grow
MaxKeysLen == 3

\* keys are byte strings; values are opaque
Keys == {<<0>>, <<0, 1>>, <<1>>}
Values == {"v", "w"}
NilValue == "nil"
\* a []byte argument that can be nil: the ends of an iterator's domain
NilBytes == [nil |-> TRUE, b |-> <<>>]
Bytes(b) == [nil |-> FALSE, b |-> b]
\* the low and high ends the callers give Iterator and ReverseIterator
Lows == {NilBytes, Bytes(<<0, 1>>)}
Highs == {NilBytes, Bytes(<<0, 1>>), Bytes(<<1>>)}

\* the zero valueInfo, which a map lookup gives for a key it does not hold
NoValueInfo == [ok |-> FALSE, value |-> NilValue, deleted |-> FALSE]
NoIterator ==
    [start |-> NilBytes, end |-> NilBytes, from |-> 0, to |-> 0,
     reverse |-> FALSE, keyIndex |-> 0]
\* a call on the cache: its arguments (key, value, low, high) and what it
\* returned (value, deleted, has, the iterator kvi) or wrote (writer)
NoKVCall ==
    [op |-> "none", key |-> <<>>, low |-> NilBytes, high |-> NilBytes,
     value |-> NilValue, deleted |-> FALSE, has |-> FALSE,
     kvi |-> NoIterator, writer |-> <<>>]

\* the goroutines that create iterators concurrently
KVThreads == {1, 2}
NoReader == [pc |-> "out", i |-> 0, j |-> 0, tmp |-> <<>>]

\* NewKVCache
KVInit ==
    /\ kvCache = [k \in Keys |-> NoValueInfo]
    /\ kvKeys = <<>>
    /\ kvLast = NoKVCall
    /\ kvWasReset = FALSE
    /\ kvReaders = [t \in KVThreads |-> NoReader]

\* ----------------------------------------- the values of proposal.Cache
\* the positions of a ProposalHash, an array of sha256.Size bytes (scaled
\* down to two)
HashIndex == {1, 2}
\* the proposalHash arguments: byte slices of any length
HashArgs == {<<0>>, <<0, 1>>, <<1>>, <<1, 0, 1>>}
Ballots == {"b1", "b2"}
NilBallot == "nil"

\* copy(hash[:], proposalHash) into a zeroed ProposalHash
ToProposalHash(proposalHash) ==
    [i \in HashIndex |->
        IF i <= Len(proposalHash) THEN proposalHash[i] ELSE 0]
\* hash[:]
ToSlice(hash) == hash

ProposalHashes == {ToProposalHash(h) : h \in HashArgs}

\* what the backends hold, by the proposalHash they are asked for:
\* nothing, or one proposal
EmptyBackend == [h \in HashArgs |-> NilBallot]
OneProposalBackend == [EmptyBackend EXCEPT ![<<0, 1>>] = "b1"]
Backends == {EmptyBackend, OneProposalBackend}

\* a nil *proposalInfo: the map has no record for the hash
NoProposalInfo ==
    [ok |-> FALSE, ballot |-> NilBallot, removed |-> FALSE,
     updated |-> FALSE]
\* no call; reader is the backend a Reset was given
NoProposalCall ==
    [op |-> "none", hash |-> <<>>, ballot |-> NilBallot, err |-> "none",
     writer |-> <<>>, reader |-> EmptyBackend]

\* NewCache(backend)
ProposalInit ==
    /\ proposals = [h \in ProposalHashes |-> NoProposalInfo]
    /\ backend = OneProposalBackend
    /\ propLast = NoProposalCall
    /\ propRemoved = {}

\* ------------------------------- two caches that are given the same calls
\* how many mutations a cache is given before its Sync
MaxMutations == 3
\* the proposalHash arguments of the mutations: one the backend holds and
\* one it does not
ReplicaHashArgs == {<<0, 1>>, <<1>>}
\* UpdateProposal(hash, ballot) and RemoveProposal(hash)
Mutations ==
    [op : {"UpdateProposal"}, hash : ReplicaHashArgs, ballot : Ballots]
        \cup [op : {"RemoveProposal"}, hash : ReplicaHashArgs,
              ballot : {NilBallot}]
\* a writer that has received no call, of a Sync that has not been made
NoWriter == [done |-> FALSE, err |-> FALSE, calls |-> <<>>]
\* proposals is the first cache; the second one is made by NewCache once
\* the first has been Sync'd
ReplicaInit ==
    replica = [cur |-> 1,
               muts |-> <<<<>>, <<>>>>,
               writer |-> <<NoWriter, NoWriter>>]

\* --------------------------- the values of the concurrent proposal.Cache
\* how often Reset is called
MaxResets == 1
\* the goroutines that call GetProposal, UpdateProposal, RemoveProposal
RaceThreads == {1, 2}
\* the proposalHash arguments: two slices of one hash
RaceHashArgs == {<<1>>, <<1, 0, 1>>}
RaceOps == {"GetProposal", "UpdateProposal", "RemoveProposal"}
\* a goroutine that is in no call; info is the *proposalInfo that get
\* returned (an index of raceHeap, 0: nil), slow: get has taken
\* cache.Lock
NoRaceCall ==
    [pc |-> "idle", op |-> "none", hash |-> <<>>, ballot |-> NilBallot,
     info |-> 0, slow |-> FALSE]

\* NewCache(backend), and no caller yet
CacheRaceInit ==
    /\ raceMap = [h \in ProposalHashes |-> 0]
    /\ raceHeap = <<>>
    /\ raceLock = 0
    /\ raceCalls = [t \in RaceThreads |-> NoRaceCall]
    /\ raceGen = [gen |-> 0, reads |-> [h \in ProposalHashes |-> 0]]

\* ------------------- the values of the proposal.Cache with its locks
\* the goroutines that call the cache: two that call GetProposal,
\* UpdateProposal and RemoveProposal, and one that calls Sync and Reset
ConcThreads == {1, 2, 3}
ConcAccessors == {1, 2}
\* the proposalHash arguments: one the backend can hold and one it cannot
ConcHashArgs == {<<0, 1>>, <<1>>}
ConcHashes == {ToProposalHash(h) : h \in ConcHashArgs}
\* the calls of GetProposal, UpdateProposal and RemoveProposal: all three
\* on the first hash, updates on the second
ConcCallArgs ==
    {<<op, <<0, 1>>>> :
        op \in {"GetProposal", "UpdateProposal", "RemoveProposal"}}
        \cup {<<"UpdateProposal", <<1>>>>}
\* the maps the cache has: the one of NewCache and the one of a Reset
Generations == {0, 1}
\* an RWMutex that nobody holds: w is the goroutine inside Lock (0: none),
\* r the goroutines inside RLock
NoHolder == [w |-> 0, r |-> {}]
\* no proposalInfo: it was never made, or it is garbage
NoConcInfo ==
    [ok |-> FALSE, ballot |-> NilBallot, removed |-> FALSE,
     updated |-> FALSE, mu |-> NoHolder]
\* no update to expect of any hash
NoUpdates == [h \in ConcHashes |-> NilBallot]
\* a goroutine that is in no call. info is the *proposalInfo that get
\* returned: the generation of the map it was read from, -1: nil;
\* hashes, i and made are the sorted hashes of Sync, its loop index and
\* its calls on the writer; expect are the updates that had returned
\* when the call began
NoConcCall ==
    [pc |-> "idle", op |-> "none", hash |-> <<>>, ballot |-> NilBallot,
     reader |-> EmptyBackend, info |-> -1, hashes |-> <<>>, i |-> 0,
     made |-> <<>>, expect |-> NoUpdates]

\* NewCache(backend), and no caller yet. heap[g][h] is the proposalInfo
\* that the map of generation g has for the hash, cache.proposals is
\* heap[gen]. last is, by hash, the ballot of the UpdateProposal that
\* returned last without error, since when no Reset has begun and the
\* hash was not removed
ConcInit ==
    conc = [heap |-> [g \in Generations |->
                         [h \in ConcHashes |-> NoConcInfo]],
            gen |-> 0,
            mu |-> NoHolder,
            calls |-> [t \in ConcThreads |-> NoConcCall],
            last |-> NoUpdates]

\* ------------------- the values of the KVCache with a kept iterator
\* the keys that are Set and Deleted
HeldKeys == Keys \cup {<<1, 1>>}
\* an iterator that was not made; array is what the array behind the
\* iterator's keys holds when it is no longer the array of kvc.keys
NoHeld ==
    [made |-> FALSE, kvi |-> NoIterator, shared |-> FALSE, array |-> <<>>]

\* NewKVCache, and no iterator yet: kvc.keys is nil. cap is the capacity
\* of the array of kvc.keys, keys its first len(kvc.keys) elements
HeldInit ==
    held = [cache |-> [k \in HeldKeys |-> NoValueInfo],
            keys |-> <<>>,
            cap |-> 0,
            it |-> NoHeld]

\* ------------------------------------------- the values of BondContext
\* the largest balance an account starts with
MaxBalance == 2
\* the largest power a validator is taken to
MaxPower == 4
\* the input addresses; the public key of an account is known by the
\* account's address
Addresses == {"A", "B"}
\* tx.Input.Amount
Amounts == 0 .. MaxBalance + 1
CurveTypes == {"ed25519", "secp256k1"}
PayloadKinds == {"BondTx", "SendTx"}
\* a nil *acm.Account: state has no account at the address
NoAccount ==
    [exists |-> FALSE, balance |-> 0, curve |-> "ed25519", bond |-> FALSE]
Accounts ==
    [exists : {TRUE}, balance : 0 .. MaxBalance, curve : CurveTypes,
     bond : BOOLEAN] \cup {NoAccount}
NoExecute ==
    [kind |-> "none", address |-> "none", amount |-> 0, ret |-> "none"]
NoBonds == [a \in Addresses |-> 0]

\* the call of Execute on the state or the validator set that returns an
\* error, if one does
Failures == {"none", "GetAccount", "AddPower", "UpdateAccount"}

\* the states a BondContext can be made over: any account at "A", no
\* account or one that can bond at "B", and a validator set in which the
\* key of "A" may have power already
BondGenesis ==
    /\ accounts \in
          {[a \in Addresses |-> IF a = "A" THEN x ELSE y] :
              x \in Accounts,
              y \in {NoAccount,
                     [exists |-> TRUE, balance |-> 1, curve |-> "ed25519",
                      bond |-> TRUE]}}
    /\ validators \in {[NoBonds EXCEPT !["A"] = n] : n \in 0 .. 1}
    /\ bondLast = NoExecute
    /\ bondHist = [accounts |-> accounts, validators |-> validators,
                   bonded |-> NoBonds]

\* a BondContext over a state with one account that can bond
BondInit ==
    /\ accounts = [a \in Addresses |->
                      IF a = "A"
                      THEN [exists |-> TRUE, balance |-> MaxBalance,
                            curve |-> "ed25519", bond |-> TRUE]
                      ELSE NoAccount]
    /\ validators = NoBonds
    /\ bondLast = NoExecute
    /\ bondHist = [accounts |-> accounts, validators |-> validators,
                   bonded |-> NoBonds]

\* ------------------------------------------------------------------ Init
\* NewTransactServer: no request yet, the lock is free
ServerInit ==
    /\ param = [p \in Procs |-> NoParam]
    /\ txEnv = [p \in Procs |-> NoEnvelope]
    /\ ctxTimeout = [p \in Procs |-> NoDeadline]
    /\ tsLock = 0
    /\ sim = [s \in SimCallers |-> NoSim]

\* NewTransactor and the state of the chain it is given
TransactorInit ==
    /\ pc = [p \in Procs |-> "idle"]
    /\ call = [p \in Procs |-> NoCall]
    /\ seqs = [p \in Procs |-> <<>>]
    /\ signed = [p \in Procs |-> FALSE]
    /\ txHash = [p \in Procs |-> NoHash]
    /\ idx = [p \in Procs |-> 1]
    /\ unlockers = [p \in Procs |-> <<>>]
    /\ once = [p \in Procs |-> "nil"]
    /\ result = [p \in Procs |-> NoResult]
    /\ receipt = [p \in Procs |-> NoHash]
    /\ lock = [a \in Addrs |-> 0]
    /\ seq0 \in 0 .. MaxInitSeq
    /\ mseq = [a \in Addrs |-> seq0]
    /\ cseq = [a \in Addrs |-> seq0]
    /\ subs = [p \in Procs |-> NoSub]
    /\ txStatus = [p \in Procs |-> "none"]
    /\ responseCh = [p \in Procs |-> <<>>]
    /\ unlockCalls = [p \in Procs |-> 0]
    /\ unlockRuns = [p \in Procs |-> 0]
    /\ fatal = FALSE

Init ==
    /\ ServerInit
    /\ KVInit
    /\ ProposalInit
    /\ ReplicaInit
    /\ BondInit
    /\ CacheRaceInit
    /\ ConcInit
    /\ HeldInit
    /\ TransactorInit

\* the initial state of the components that do not use the accounts'
\* sequences
InitNoSequence == Init /\ seq0 = 0

\* --------------------------------------------------------------- helpers
\* txs.Tx.Hash over the payload and the sequences of its inputs; every
\* caller submits a distinct payload
HashOf(p, sq) == <<p, sq>>

\* Tx.Hash(): the cached hash, computed on first use
Hash(p) == IF txHash[p] = NoHash THEN HashOf(p, seqs[p]) ELSE txHash[p]

\* Tx.Rehash(): recompute the hash
Rehash(p, sq) == HashOf(p, sq)

Err(kind) ==
    [kind |-> kind, code |-> 0, log |-> NoLog, hash |-> NoHash, exc |-> "none"]

LockState ==
    [lock |-> lock, once |-> once, calls |-> unlockCalls,
     runs |-> unlockRuns, fatal |-> fatal]

SetLockState(st) ==
    /\ lock' = st.lock
    /\ once' = st.once
    /\ unlockCalls' = st.calls
    /\ unlockRuns' = st.runs
    /\ fatal' = st.fatal

\* the unlock of one signing account: sync.Mutex.Unlock, which is fatal on
\* a mutex that is not locked and does not know who holds it
RECURSIVE UnlockAll(_, _, _)
UnlockAll(st, us, i) ==
    IF i = 0 THEN st
    ELSE UnlockAll([st EXCEPT !.lock[us[i]] = 0,
                              !.fatal = st.fatal \/ st.lock[us[i]] = 0],
                   us, i - 1)

\* the UnlockFunc returned by SignTxMempool: the unlockers are deferred in
\* a loop, so they run last to first
SignTxMempoolUnlock(p, st) ==
    LET s == UnlockAll(st, unlockers[p], Len(unlockers[p]))
    IN  [s EXCEPT !.runs[p] = @ + 1]

UnlockWithoutOnce(p, st) ==
    LET c == [st EXCEPT !.calls[p] = @ + 1]
    IN  IF st.once[p] \in {"armed", "spent"}
        THEN SignTxMempoolUnlock(p, [c EXCEPT !.once[p] = "spent"])
        ELSE c

\* the unlock returned by MaybeSignTxMempool: once.Do(unlock) for an
\* envelope it signed, func() {} for an envelope that came signed
Unlock(p, st) ==
    LET c == [st EXCEPT !.calls[p] = @ + 1]
    IN  IF st.once[p] = "armed"
        THEN SignTxMempoolUnlock(p, [c EXCEPT !.once[p] = "spent"])
        ELSE c

\* Emitter.UnsubscribeAll(ctx, subID)
UnsubscribeAll(p, sb) == [sb EXCEPT ![p] = NoSub]

\* ----------------------------------------------------------- the callers
\* the call enters the Transactor with an envelope whose tx has the inputs
\* ins and that is signed (ps) or not
Enter(p, op, ins, ps) ==
    /\ pc[p] = "idle"
    /\ op = "SignTx" => ~ps
    /\ call' = [call EXCEPT ![p] =
                  [op |-> op, inputs |-> ins, presigned |-> ps]]
    /\ seqs' = [seqs EXCEPT ![p] =
                  [i \in 1 .. Len(ins) |->
                      IF ps \/ op = "SignTx" THEN seq0 + 1 ELSE 0]]
    /\ signed' = [signed EXCEPT ![p] = ps]
    \* CheckTxSync logs txEnv.Tx.Hash() before it signs
    /\ txHash' = [txHash EXCEPT ![p] =
                    IF op = "BroadcastTxAsync"
                    THEN HashOf(p, seqs'[p]) ELSE NoHash]
    /\ pc' = [pc EXCEPT ![p] = IF op = "SignTx" THEN "signtx" ELSE "sign"]
    /\ UNCHANGED <<idx, result, receipt, subs>>
    /\ UNCHANGED lockVars
    /\ UNCHANGED chainVars

\* a client calls BroadcastTxSync, BroadcastTxAsync or SignTx with an
\* envelope that is unsigned or that the client signed at the sequence it
\* expects to be next
NewCall(p, op) ==
    /\ \E ins \in InputLists, ps \in BOOLEAN : Enter(p, op, ins, ps)
    /\ UNCHANGED <<serverVars, otherVars>>

CallBroadcastTxSync(p) == NewCall(p, "BroadcastTxSync")
CallBroadcastTxAsync(p) == NewCall(p, "BroadcastTxAsync")
CallSignTx(p) == NewCall(p, "SignTx")

\* where the call continues when MaybeSignTxMempool has returned
AfterSign(p) ==
    IF call[p].op = "BroadcastTxSync" THEN "subscribe" ELSE "checktx"

\* MaybeSignTxMempool for an envelope that has signatories
MaybeSignTxMempool(p) ==
    /\ pc[p] = "sign"
    /\ signed[p]
    /\ once' = [once EXCEPT ![p] = "noop"]
    /\ pc' = [pc EXCEPT ![p] = AfterSign(p)]
    /\ UNCHANGED <<lock, unlockers, unlockCalls, unlockRuns, fatal>>
    /\ UNCHANGED <<callVars, result, receipt, subs>>
    /\ UNCHANGED chainVars
    /\ UNCHANGED <<serverVars, otherVars>>

\* input.Sequence = sa.Sequence + 1, where sa is the signing account read
\* from the mempool state under the lock
NextSequenceSame(a) == mseq[a]
NextSequence(a) == mseq[a] + 1

\* one iteration of the loop of SignTxMempool over the inputs
SignTxMempoolLock(p) ==
    /\ pc[p] = "sign"
    /\ ~signed[p]
    /\ idx[p] <= Len(call[p].inputs)
    /\ LET a == call[p].inputs[idx[p]] IN
       \/ \* SequentialSigningAccount(input.Address) fails: return err
          /\ pc' = [pc EXCEPT ![p] = "done"]
          /\ result' = [result EXCEPT ![p] = Err("SigningError")]
          /\ UNCHANGED <<lock, unlockers, seqs, idx>>
       \/ \* ssa.Lock() fails: it gives its lock back and returns err
          /\ lock[a] = 0
          /\ pc' = [pc EXCEPT ![p] = "done"]
          /\ result' = [result EXCEPT ![p] = Err("SigningError")]
          /\ UNCHANGED <<lock, unlockers, seqs, idx>>
       \/ \* ssa.Lock() returns the signing account
          /\ lock[a] = 0
          /\ lock' = [lock EXCEPT ![a] = p]
          /\ unlockers' = [unlockers EXCEPT ![p] = Append(@, a)]
          /\ seqs' = [seqs EXCEPT ![p][idx[p]] = NextSequence(a)]
          /\ idx' = [idx EXCEPT ![p] = @ + 1]
          /\ UNCHANGED <<pc, result>>
    /\ UNCHANGED <<call, signed, txHash, receipt, subs>>
    /\ UNCHANGED <<once, unlockCalls, unlockRuns, fatal>>
    /\ UNCHANGED chainVars
    /\ UNCHANGED <<serverVars, otherVars>>

\* the end of SignTxMempool and of MaybeSignTxMempool: txEnv.Sign, Rehash
\* and the once that guards the unlock
SignTxMempoolSign(p) ==
    /\ pc[p] = "sign"
    /\ ~signed[p]
    /\ idx[p] > Len(call[p].inputs)
    /\ \/ \* txEnv.Sign(signers...) fails: return err
          /\ pc' = [pc EXCEPT ![p] = "done"]
          /\ result' = [result EXCEPT ![p] = Err("SigningError")]
          /\ UNCHANGED <<signed, txHash, once>>
       \/ /\ signed' = [signed EXCEPT ![p] = TRUE]
          /\ txHash' = [txHash EXCEPT ![p] = Rehash(p, seqs[p])]
          /\ once' = [once EXCEPT ![p] = "armed"]
          /\ pc' = [pc EXCEPT ![p] = AfterSign(p)]
          /\ UNCHANGED result
    /\ UNCHANGED <<call, seqs, idx, receipt, subs>>
    /\ UNCHANGED <<lock, unlockers, unlockCalls, unlockRuns, fatal>>
    /\ UNCHANGED chainVars
    /\ UNCHANGED <<serverVars, otherVars>>

\* exec.QueryForTxExecution(txHash) with txHash := txEnv.Tx.Hash(), taken
\* after MaybeSignTxMempool has signed and rehashed
QueryBeforeSigning(p) == HashOf(p, [i \in DOMAIN seqs[p] |-> 0])
QueryForTxExecution(p) == Hash(p)

\* Emitter.Subscribe(ctx, subID, QueryForTxExecution(txHash), size) with a
\* subscription id of the caller's own (GenSubID)
Subscribe(p) ==
    /\ pc[p] = "subscribe"
    /\ \/ /\ txHash' = [txHash EXCEPT ![p] = Hash(p)]
          /\ subs' = [subs EXCEPT ![p] =
                        [query |-> QueryForTxExecution(p), buf |-> <<>>,
                         open |-> TRUE]]
          /\ pc' = [pc EXCEPT ![p] = "checktx"]
          /\ UNCHANGED <<result, lock, once, unlockCalls, unlockRuns, fatal>>
       \/ \* Subscribe fails (ctx is cancelled, the emitter is shut down):
          \* return err, the deferred unlock runs
          /\ pc' = [pc EXCEPT ![p] = "done"]
          /\ result' = [result EXCEPT ![p] = Err("SubscribeError")]
          /\ SetLockState(Unlock(p, LockState))
          /\ UNCHANGED <<txHash, subs>>
    /\ UNCHANGED <<call, seqs, signed, idx, receipt, unlockers>>
    /\ UNCHANGED chainVars
    /\ UNCHANGED <<serverVars, otherVars>>

ReturnFromCheckTxSyncKeepLock(p, res) ==
    IF call[p].op = "BroadcastTxSync" /\ res.kind = "Receipt"
    THEN /\ pc' = [pc EXCEPT ![p] = "waitcommit"]
         /\ receipt' = [receipt EXCEPT ![p] = res.hash]
         /\ UNCHANGED <<result, subs, lock, once, unlockCalls, unlockRuns,
                        fatal>>
    ELSE /\ pc' = [pc EXCEPT ![p] = "done"]
         /\ result' = [result EXCEPT ![p] = res]
         /\ SetLockState(Unlock(p, LockState))
         /\ subs' = UnsubscribeAll(p, subs)
         /\ UNCHANGED receipt

ReturnFromCheckTxSyncKeepSub(p, res) ==
    IF call[p].op = "BroadcastTxSync" /\ res.kind = "Receipt"
    THEN /\ pc' = [pc EXCEPT ![p] = "waitcommit"]
         /\ receipt' = [receipt EXCEPT ![p] = res.hash]
         /\ SetLockState(Unlock(p, LockState))
         /\ UNCHANGED <<result, subs>>
    ELSE /\ pc' = [pc EXCEPT ![p] = "done"]
         /\ result' = [result EXCEPT ![p] = res]
         /\ SetLockState(Unlock(p, Unlock(p, LockState)))
         /\ UNCHANGED <<receipt, subs>>

\* CheckTxSync returns to its caller: its own deferred unlock runs; in
\* BroadcastTxSync (where that unlock is the func() {} of a signed envelope)
\* unlock() is called next and, on an error, UnsubscribeAll and the
\* deferred unlock run
ReturnFromCheckTxSync(p, res) ==
    IF call[p].op = "BroadcastTxSync"
    THEN IF res.kind = "Receipt"
         THEN /\ pc' = [pc EXCEPT ![p] = "waitcommit"]
              /\ receipt' = [receipt EXCEPT ![p] = res.hash]
              /\ SetLockState(Unlock(p, LockState))
              /\ UNCHANGED <<result, subs>>
         ELSE /\ pc' = [pc EXCEPT ![p] = "done"]
              /\ result' = [result EXCEPT ![p] = res]
              /\ SetLockState(Unlock(p, Unlock(p, LockState)))
              /\ subs' = UnsubscribeAll(p, subs)
              /\ UNCHANGED receipt
    ELSE /\ pc' = [pc EXCEPT ![p] = "done"]
         /\ result' = [result EXCEPT ![p] = res]
         /\ SetLockState(Unlock(p, LockState))
         /\ UNCHANGED <<receipt, subs>>

\* CheckTxSync up to the call of checkTxAsync in CheckTxSyncRaw
CheckTxSync(p) ==
    /\ pc[p] = "checktx"
    /\ \/ \* txEnv.Validate() or EncodeTx fails on what the client signed
          /\ call[p].presigned
          /\ ReturnFromCheckTxSync(p, Err("InvalidEnvelope"))
          /\ UNCHANGED txStatus
       \/ \* checkTxAsync returns an error: nothing was submitted
          /\ ReturnFromCheckTxSync(p, Err("MempoolError"))
          /\ UNCHANGED txStatus
       \/ \* the tx is handed to the mempool
          /\ txStatus' = [txStatus EXCEPT ![p] = "pending"]
          /\ pc' = [pc EXCEPT ![p] = "waitcheck"]
          /\ UNCHANGED <<result, receipt, subs>>
          /\ UNCHANGED <<lock, once, unlockCalls, unlockRuns, fatal>>
    /\ UNCHANGED <<callVars, unlockers, mseq, cseq, seq0, responseCh>>
    /\ UNCHANGED <<serverVars, otherVars>>

CheckTxResultAnyCode(p, r) ==
    IF r.kind # "CheckTx" THEN Err("NoCheckTxResponse")
    ELSE [kind |-> "Receipt", code |-> r.code, log |-> NoLog,
          hash |-> HashOf(p, seqs[p]), exc |-> "none"]

\* what CheckTxSyncRaw makes of the response it received
CheckTxResult(p, r) ==
    IF r.kind # "CheckTx" THEN Err("NoCheckTxResponse")
    ELSE IF r.code = TxExecutionSuccessCode
         THEN IF r.receiptOk
              THEN [kind |-> "Receipt", code |-> r.code, log |-> NoLog,
                    hash |-> r.hash, exc |-> "none"]
              ELSE Err("ReceiptError")
         ELSE [kind |-> "CheckTxError", code |-> r.code, log |-> r.log,
               hash |-> NoHash, exc |-> "none"]

\* the select of CheckTxSyncRaw
CheckTxSyncRaw(p) ==
    /\ pc[p] = "waitcheck"
    /\ \/ \* case <-ctx.Done(): the context is cancelled during the wait
          /\ ReturnFromCheckTxSync(p, Err("CheckTxCancelled"))
          /\ UNCHANGED responseCh
       \/ \* case response := <-responseCh
          /\ responseCh[p] # <<>>
          /\ ReturnFromCheckTxSync(p, CheckTxResult(p, Head(responseCh[p])))
          /\ responseCh' = [responseCh EXCEPT ![p] = Tail(@)]
    /\ UNCHANGED <<callVars, unlockers, mseq, cseq, seq0, txStatus>>
    /\ UNCHANGED <<serverVars, otherVars>>

TxExecutionResultAnyException(txe) ==
    IF txe.exc # "none"
    THEN Err("ExecutionError")
    ELSE [kind |-> "TxExecution", code |-> 0, log |-> NoLog,
          hash |-> txe.hash, exc |-> txe.exc]

\* what BroadcastTxSync returns for the TxExecution it received
TxExecutionResult(txe) ==
    IF txe.exc # "none" /\ txe.exc # "ExecutionReverted"
    THEN Err("ExecutionError")
    ELSE [kind |-> "TxExecution", code |-> 0, log |-> NoLog,
          hash |-> txe.hash, exc |-> txe.exc]

AwaitTxExecutionRetract(p) ==
    /\ pc[p] = "waitcommit"
    /\ \/ /\ result' = [result EXCEPT ![p] =
                          [kind |-> "Timeout", code |-> 0, log |-> NoLog,
                           hash |-> receipt[p], exc |-> "none"]]
          /\ txStatus' = [txStatus EXCEPT ![p] =
                            IF @ = "accepted" THEN "none" ELSE @]
       \/ /\ subs[p].buf # <<>>
          /\ result' = [result EXCEPT ![p] =
                          TxExecutionResult(Head(subs[p].buf))]
          /\ UNCHANGED txStatus
    /\ pc' = [pc EXCEPT ![p] = "done"]
    /\ subs' = UnsubscribeAll(p, subs)
    /\ SetLockState(Unlock(p, LockState))
    /\ UNCHANGED <<callVars, receipt, unlockers>>
    /\ UNCHANGED <<mseq, cseq, seq0, responseCh>>
    /\ UNCHANGED <<serverVars, otherVars>>

\* the select at the end of BroadcastTxSync; UnsubscribeAll and unlock are
\* deferred
AwaitTxExecution(p) ==
    /\ pc[p] = "waitcommit"
    /\ \/ \* case <-ctx.Done(): the context is cancelled during the wait
          /\ result' = [result EXCEPT ![p] =
                          [kind |-> "Timeout", code |-> 0, log |-> NoLog,
                           hash |-> receipt[p], exc |-> "none"]]
       \/ \* case msg := <-out
          /\ subs[p].buf # <<>>
          /\ result' = [result EXCEPT ![p] =
                          TxExecutionResult(Head(subs[p].buf))]
    /\ pc' = [pc EXCEPT ![p] = "done"]
    /\ subs' = UnsubscribeAll(p, subs)
    /\ SetLockState(Unlock(p, LockState))
    /\ UNCHANGED <<callVars, receipt, unlockers>>
    /\ UNCHANGED chainVars
    /\ UNCHANGED <<serverVars, otherVars>>

SignTxLocking(p) ==
    /\ pc[p] = "signtx"
    /\ lock[call[p].inputs[1]] = 0
    /\ lock' = [lock EXCEPT ![call[p].inputs[1]] = p]
    /\ signed' = [signed EXCEPT ![p] = TRUE]
    /\ result' = [result EXCEPT ![p] =
                    [kind |-> "Envelope", code |-> 0, log |-> NoLog,
                     hash |-> NoHash, exc |-> "none"]]
    /\ pc' = [pc EXCEPT ![p] = "done"]
    /\ UNCHANGED <<call, seqs, txHash, idx, receipt, subs>>
    /\ UNCHANGED <<unlockers, once, unlockCalls, unlockRuns, fatal>>
    /\ UNCHANGED chainVars
    /\ UNCHANGED <<serverVars, otherVars>>

\* Transactor.SignTx: SigningAccount for every input, then txEnv.Sign
SignTx(p) ==
    /\ pc[p] = "signtx"
    /\ \/ \* SigningAccount or Sign fails
          /\ result' = [result EXCEPT ![p] = Err("SigningError")]
          /\ UNCHANGED signed
       \/ /\ signed' = [signed EXCEPT ![p] = TRUE]
          /\ result' = [result EXCEPT ![p] =
                          [kind |-> "Envelope", code |-> 0, log |-> NoLog,
                           hash |-> NoHash, exc |-> "none"]]
    /\ pc' = [pc EXCEPT ![p] = "done"]
    /\ UNCHANGED <<call, seqs, txHash, idx, receipt, subs>>
    /\ UNCHANGED lockVars
    /\ UNCHANGED chainVars
    /\ UNCHANGED <<serverVars, otherVars>>

\* ------------------------------------------------- mempool and consensus
\* the callback on a channel without buffer: the send waits for a receiver
CallbackUnbuffered(ch, r) == IF Len(ch) < 0 THEN Append(ch, r) ELSE ch

\* the callback of CheckTxSyncRaw: responseCh <- res, which completes when
\* the buffer of the channel has room and waits for a receiver otherwise
Callback(ch, r) == IF Len(ch) < ResponseChSize THEN Append(ch, r) ELSE ch

\* the sequences of the tx of p are the next ones of all its inputs
NextAfter(p, sq) ==
    \A i \in 1 .. Len(call[p].inputs) :
        seqs[p][i] = sq[call[p].inputs[i]] + 1

Bump(p, sq) ==
    [a \in Addrs |-> IF a \in Range(call[p].inputs) THEN sq[a] + 1 ELSE sq[a]]

\* the log message the application attaches to an error code
AbciLog(c) == <<"log", c>>

\* the mempool runs CheckTx on a submitted tx against the mempool state and
\* calls the callback with the response
MempoolCheckTx(p) ==
    /\ txStatus[p] = "pending"
    /\ \/ \* accepted: the pending sequences advance
          /\ NextAfter(p, mseq)
          /\ responseCh' = [responseCh EXCEPT ![p] = Callback(@,
                    [kind |-> "CheckTx", code |-> TxExecutionSuccessCode,
                     log |-> NoLog, receiptOk |-> TRUE,
                     hash |-> HashOf(p, seqs[p])])]
          /\ mseq' = Bump(p, mseq)
          /\ txStatus' = [txStatus EXCEPT ![p] = "accepted"]
       \/ \* rejected, for its sequence or anything else
          /\ \E c \in ErrorCodes :
                responseCh' = [responseCh EXCEPT ![p] = Callback(@,
                    [kind |-> "CheckTx", code |-> c, log |-> AbciLog(c),
                     receiptOk |-> FALSE, hash |-> NoHash])]
          /\ txStatus' = [txStatus EXCEPT ![p] = "rejected"]
          /\ UNCHANGED mseq
    /\ UNCHANGED <<pc, callVars, result, receipt, subs, cseq, seq0>>
    /\ UNCHANGED lockVars
    /\ UNCHANGED <<serverVars, otherVars>>

\* Emitter.Publish: the event goes to every subscription whose query it
\* matches; a subscription whose buffer is full is dropped
Publish(sb, txe) ==
    [q \in Procs |->
        IF sb[q].open /\ sb[q].query = txe.hash
        THEN IF Len(sb[q].buf) < SubscribeBufferSize
             THEN [sb[q] EXCEPT !.buf = Append(@, txe)]
             ELSE NoSub
        ELSE sb[q]]

\* a block with the tx is committed and its TxExecution is published
Commit(p) ==
    /\ txStatus[p] = "accepted"
    /\ NextAfter(p, cseq)
    /\ \E e \in Exceptions :
          subs' = Publish(subs, [hash |-> HashOf(p, seqs[p]), exc |-> e])
    /\ cseq' = Bump(p, cseq)
    /\ txStatus' = [txStatus EXCEPT ![p] = "committed"]
    /\ UNCHANGED <<pc, callVars, result, receipt, mseq, seq0, responseCh>>
    /\ UNCHANGED lockVars
    /\ UNCHANGED <<serverVars, otherVars>>

Next ==
    \E p \in Procs :
        \/ CallBroadcastTxSync(p)
        \/ CallBroadcastTxAsync(p)
        \/ CallSignTx(p)
        \/ MaybeSignTxMempool(p)
        \/ SignTxMempoolLock(p)
        \/ SignTxMempoolSign(p)
        \/ Subscribe(p)
        \/ CheckTxSync(p)
        \/ CheckTxSyncRaw(p)
        \/ AwaitTxExecution(p)
        \/ SignTx(p)
        \/ MempoolCheckTx(p)
        \/ Commit(p)

Spec == Init /\ [][Next]_vars

\* ------------------------------------- concurrent calls of SignTxMempool
\* the inputs of transactions that share their signing accounts: the same
\* two addresses in either order, and one address twice
SignInputLists == {<<"a", "b">>, <<"b", "a">>, <<"a", "a">>}

\* BroadcastTxAsync of an envelope without signatories, which CheckTxSync
\* hands to MaybeSignTxMempool and so to SignTxMempool
CallSignTxMempool(p) ==
    /\ \E ins \in SignInputLists : Enter(p, "BroadcastTxAsync", ins, FALSE)
    /\ UNCHANGED <<serverVars, otherVars>>

SignNext ==
    \E p \in Procs :
        \/ CallSignTxMempool(p)
        \/ SignTxMempoolLock(p)
        \/ SignTxMempoolSign(p)
        \/ CheckTxSync(p)
        \/ CheckTxSyncRaw(p)
        \/ MempoolCheckTx(p)

SignSpec == InitNoSequence /\ [][SignNext]_vars

TypeOK ==
    /\ pc \in [Procs -> {"idle", "sign", "signtx", "subscribe", "checktx",
                         "waitcheck", "waitcommit", "done"}]
    /\ lock \in [Addrs -> Procs \cup {0}]
    /\ \A p \in Procs : Len(responseCh[p]) <= ResponseChSize

\* ========================================================= transactServer
\* txs.EnvelopeFromAny(chainID, payload): the payload enclosed in an
\* unsigned envelope for the chain
EnvelopeFromAny(chainID, any) ==
    [nil |-> FALSE, chainID |-> chainID, inputs |-> any.inputs,
     signed |-> FALSE]

GetEnvelopePayloadFirst(chainID, te) ==
    IF te.nil THEN NoEnvelope
    ELSE IF ~te.payload.nil THEN EnvelopeFromAny(chainID, te.payload)
    ELSE IF ~te.envelope.nil THEN te.envelope
    ELSE NoEnvelope

\* TxEnvelopeParam.GetEnvelope
GetEnvelope(chainID, te) ==
    IF te.nil THEN NoEnvelope
    ELSE IF ~te.envelope.nil THEN te.envelope
    ELSE IF ~te.payload.nil THEN EnvelopeFromAny(chainID, te.payload)
    ELSE NoEnvelope

\* if param.Timeout == 0 { param.Timeout = maxBroadcastSyncTimeout }
DefaultTimeout(te) ==
    IF te.timeout = 0 THEN [te EXCEPT !.timeout = maxBroadcastSyncTimeout]
    ELSE te

\* the handler hands env to the Transactor, or returns
\* "no transaction envelope or payload provided" when env is nil
Dispatch(p, op, env) ==
    IF env.nil
    THEN /\ pc[p] = "idle"
         /\ pc' = [pc EXCEPT ![p] = "done"]
         /\ result' = [result EXCEPT ![p] = Err("InvalidRequest")]
         /\ UNCHANGED <<callVars, receipt, subs>>
         /\ UNCHANGED lockVars
         /\ UNCHANGED chainVars
    ELSE Enter(p, op, env.inputs, env.signed)

\* transactServer.BroadcastTxSync up to its call of the Transactor
RpcBroadcastTxSync(p) ==
    \E te \in Params :
        /\ param' = [param EXCEPT ![p] = DefaultTimeout(te)]
        \* context.WithTimeout(ctx, param.Timeout)
        /\ ctxTimeout' = [ctxTimeout EXCEPT ![p] =
                            [set |-> TRUE, d |-> param'[p].timeout]]
        /\ txEnv' = [txEnv EXCEPT ![p] = GetEnvelope(ChainID, param'[p])]
        /\ Dispatch(p, "BroadcastTxSync", txEnv'[p])
        /\ UNCHANGED otherVars

\* transactServer.BroadcastTxAsync up to its call of the Transactor
RpcBroadcastTxAsync(p) ==
    \E te \in Params :
        /\ param' = [param EXCEPT ![p] = DefaultTimeout(te)]
        /\ txEnv' = [txEnv EXCEPT ![p] = GetEnvelope(ChainID, param'[p])]
        /\ Dispatch(p, "BroadcastTxAsync", txEnv'[p])
        /\ UNCHANGED <<ctxTimeout, otherVars>>

\* transactServer.SignTx up to its call of the Transactor; GetEnvelope
\* takes a nil param as well
RpcSignTx(p) ==
    \E te \in Params \cup {NoParam} :
        /\ param' = [param EXCEPT ![p] = te]
        /\ txEnv' = [txEnv EXCEPT ![p] = GetEnvelope(ChainID, te)]
        /\ Dispatch(p, "SignTx", txEnv'[p])
        /\ UNCHANGED <<ctxTimeout, otherVars>>

RpcNext ==
    \E p \in RpcProcs :
        \/ RpcBroadcastTxSync(p)
        \/ RpcBroadcastTxAsync(p)
        \/ RpcSignTx(p)
        \/ MaybeSignTxMempool(p)
        \/ SignTxMempoolLock(p)
        \/ SignTxMempoolSign(p)
        \/ Subscribe(p)
        \/ CheckTxSync(p)
        \/ CheckTxSyncRaw(p)
        \/ AwaitTxExecution(p)
        \/ SignTx(p)
        \/ MempoolCheckTx(p)
        \/ Commit(p)

RpcSpec == Init /\ [][RpcNext]_vars

\* ------------------------------------------------ CallTxSim, CallCodeSim
\* a simulation is called: CallTxSim returns at once when param.Address is
\* nil, otherwise the call goes on to ts.lock.Lock()
SimCall(s) ==
    /\ sim[s].pc \in {"idle", "done"}
    /\ \/ sim' = [sim EXCEPT ![s] =
                    [pc |-> "done", op |-> "CallTxSim", ret |-> "NoAddress"]]
       \/ \E op \in SimOps :
             sim' = [sim EXCEPT ![s] =
                       [pc |-> "lock", op |-> op, ret |-> "none"]]
    /\ UNCHANGED <<tsLock, transactorVars, serverVars, kvVars, propVars,
                   replica, moreVars>>

\* ts.lock.Lock() returns
SimLock(s) ==
    /\ sim[s].pc = "lock"
    /\ tsLock = 0
    /\ tsLock' = s
    /\ sim' = [sim EXCEPT ![s].pc = "sim"]
    /\ UNCHANGED <<transactorVars, serverVars, kvVars, propVars, replica,
                   moreVars>>

SimReturnErrorKeepsLock(s) ==
    /\ sim[s].pc = "sim"
    /\ \E r \in {"TxExecution", "error", "panic"} :
          /\ sim' = [sim EXCEPT ![s] = [@ EXCEPT !.pc = "done", !.ret = r]]
          /\ tsLock' = IF r = "TxExecution" THEN 0 ELSE tsLock
    /\ UNCHANGED <<transactorVars, serverVars, kvVars, propVars, replica,
                   moreVars>>

\* execution.CallSim or CallCodeSim returns its TxExecution or an error,
\* or panics; the deferred ts.lock.Unlock() runs
SimReturn(s) ==
    /\ sim[s].pc = "sim"
    /\ \E r \in {"TxExecution", "error", "panic"} :
          sim' = [sim EXCEPT ![s] = [@ EXCEPT !.pc = "done", !.ret = r]]
    /\ tsLock' = 0
    /\ UNCHANGED <<transactorVars, serverVars, kvVars, propVars, replica,
                   moreVars>>

SimNext ==
    \E s \in SimCallers :
        \/ SimCall(s)
        \/ SimLock(s)
        \/ SimReturn(s)

SimSpec == InitNoSequence /\ [][SimNext]_vars

\* ================================================================ KVCache
\* bytes.Compare
RECURSIVE BytesCompare(_, _)
BytesCompare(a, b) ==
    IF a = <<>> /\ b = <<>> THEN 0
    ELSE IF a = <<>> THEN -1
    ELSE IF b = <<>> THEN 1
    ELSE IF Head(a) < Head(b) THEN -1
    ELSE IF Head(a) > Head(b) THEN 1
    ELSE BytesCompare(Tail(a), Tail(b))

\* storage.NormaliseDomain: a nil low becomes the empty key, a nil high
\* stays the open end
NormaliseDomain(low, high) ==
    <<IF low.nil THEN Bytes(<<>>) ELSE low, high>>

\* storage.CompareKeys(key, end) of a key with an end of the domain: every
\* key is before the open end
CompareKeys(key, end) ==
    IF end.nil THEN -1 ELSE BytesCompare(key, end.b)

\* byteSlices.Less and byteSlices.Swap (positions count from 1)
byteSlicesLess(bss, i, j) == BytesCompare(bss[i], bss[j]) = -1
byteSlicesSwap(bss, i, j) == [bss EXCEPT ![i] = bss[j], ![j] = bss[i]]

\* sort.Sort on a short slice is an insertion sort: the inner loop moves
\* the element at j down while it is less than the one before it
RECURSIVE InsertionInner(_, _)
InsertionInner(bss, j) ==
    IF j > 1 /\ byteSlicesLess(bss, j, j - 1)
    THEN InsertionInner(byteSlicesSwap(bss, j, j - 1), j - 1)
    ELSE bss

RECURSIVE InsertionSort(_, _)
InsertionSort(bss, i) ==
    IF i > Len(bss) THEN bss
    ELSE InsertionSort(InsertionInner(bss, i), i + 1)

SortNone(bss) == bss
\* sort.Sort(kvc.keys)
Sort(bss) == InsertionSort(bss, 2)

Min(S) == CHOOSE x \in S : \A y \in S : x <= y

\* sortedKeysInDomain, the first loop: the index (from 0) of the first key
\* that is not before low, len(keys) if there is none
StartIndex(sortedKeys, low) ==
    LET hit == {i \in 1 .. Len(sortedKeys) :
                   CompareKeys(sortedKeys[i], low) # -1}
    IN  IF hit = {} THEN Len(sortedKeys) ELSE Min(hit) - 1

\* sortedKeysInDomain, the second loop over sortedKeys[startIndex:]: the
\* index (from 0, in kvc.keys) of the first key that is not before high
EndIndex(sortedKeys, startIndex, high) ==
    LET hit == {i \in startIndex + 1 .. Len(sortedKeys) :
                   CompareKeys(sortedKeys[i], high) # -1}
    IN  IF hit = {} THEN Len(sortedKeys) ELSE Min(hit) - 1

\* newIterator over the sorted keys: the iterator's keys are the slice
\* kvc.keys[from:to], which shares the array of kvc.keys
newIterator(sortedKeys, start, end, reverse) ==
    LET from == StartIndex(sortedKeys, start)
    IN  [start |-> start, end |-> end, from |-> from,
         to |-> EndIndex(sortedKeys, from, end), reverse |-> reverse,
         keyIndex |-> 0]

\* KVCacheIterator.sliceIndex for the key index n (from 0)
sliceIndex(kvi, n) ==
    IF kvi.reverse THEN (kvi.to - kvi.from) - 1 - n ELSE n

\* the keys that Key() and Next() give until Valid() is false, read from
\* the array bss that the iterator's slice lies in
Yield(kvi, bss) ==
    [n \in 1 .. kvi.to - kvi.from |->
        bss[kvi.from + sliceIndex(kvi, n - 1) + 1]]

\* what Info, Get and Has return on the map c
InfoOf(c, key) == <<c[key].value, c[key].deleted>>
GetOf(c, key) == c[key].value
HasOf(c, key) == c[key].ok /\ ~c[key].deleted

KVFrame == UNCHANGED <<kvReaders, transactorVars, serverVars, simVars,
                       propVars, replica, moreVars>>

\* KVCache.Info
KVInfo(key) ==
    /\ kvLast' = [NoKVCall EXCEPT !.op = "Info", !.key = key,
                                  !.value = InfoOf(kvCache, key)[1],
                                  !.deleted = InfoOf(kvCache, key)[2]]
    /\ UNCHANGED <<kvCache, kvKeys, kvWasReset>>
    /\ KVFrame

\* KVCache.Get
KVGet(key) ==
    /\ kvLast' = [NoKVCall EXCEPT !.op = "Get", !.key = key,
                                  !.value = GetOf(kvCache, key)]
    /\ UNCHANGED <<kvCache, kvKeys, kvWasReset>>
    /\ KVFrame

\* KVCache.Has
KVHas(key) ==
    /\ kvLast' = [NoKVCall EXCEPT !.op = "Has", !.key = key,
                                  !.has = HasOf(kvCache, key)]
    /\ UNCHANGED <<kvCache, kvKeys, kvWasReset>>
    /\ KVFrame

\* the first Set or Delete of a key appends it to kvc.keys
AppendKey(key) ==
    IF kvCache[key].ok THEN kvKeys ELSE Append(kvKeys, key)

\* KVCache.Set
KVSet(key, value) ==
    /\ Len(AppendKey(key)) <= MaxKeysLen
    /\ kvKeys' = AppendKey(key)
    /\ kvCache' = [kvCache EXCEPT ![key] =
                      [ok |-> TRUE, value |-> value, deleted |-> FALSE]]
    /\ kvLast' = [NoKVCall EXCEPT !.op = "Set", !.key = key,
                                  !.value = value]
    /\ UNCHANGED kvWasReset
    /\ KVFrame

KVDeleteKeepsValue(key) ==
    /\ Len(AppendKey(key)) <= MaxKeysLen
    /\ kvKeys' = AppendKey(key)
    /\ kvCache' = [kvCache EXCEPT ![key] =
                      [ok |-> TRUE, value |-> @.value, deleted |-> TRUE]]
    /\ kvLast' = [NoKVCall EXCEPT !.op = "Delete", !.key = key]
    /\ UNCHANGED kvWasReset
    /\ KVFrame

\* KVCache.Delete
KVDelete(key) ==
    /\ Len(AppendKey(key)) <= MaxKeysLen
    /\ kvKeys' = AppendKey(key)
    /\ kvCache' = [kvCache EXCEPT ![key] =
                      [ok |-> TRUE, value |-> NilValue, deleted |-> TRUE]]
    /\ kvLast' = [NoKVCall EXCEPT !.op = "Delete", !.key = key]
    /\ UNCHANGED kvWasReset
    /\ KVFrame

\* Iterator and ReverseIterator by a single caller: NormaliseDomain, the
\* sort of kvc.keys in place, and newIterator
IteratorCall(op, low, high, reverse) ==
    LET d == NormaliseDomain(low, high)
    IN  /\ kvKeys' = Sort(kvKeys)
        /\ kvLast' = [NoKVCall EXCEPT
                         !.op = op, !.low = low, !.high = high,
                         !.kvi = newIterator(kvKeys', d[1], d[2], reverse)]
        /\ UNCHANGED <<kvCache, kvWasReset>>
        /\ KVFrame

\* KVCache.Iterator
KVIterator(low, high) == IteratorCall("Iterator", low, high, FALSE)

\* KVCache.ReverseIterator
KVReverseIterator(low, high) ==
    IteratorCall("ReverseIterator", low, high, TRUE)

\* the orders in which a range over a map can visit the keys in S
Orders(S) ==
    {o \in [1 .. Cardinality(S) -> S] :
        \A i, j \in DOMAIN o : i # j => o[i] # o[j]}

\* the body of the loop of WriteTo: writer.Delete(kb) or
\* writer.Set(kb, vi.value)
WriterCall(k, vi) ==
    IF vi.deleted
    THEN [op |-> "Delete", key |-> k, value |-> NilValue]
    ELSE [op |-> "Set", key |-> k, value |-> vi.value]

KVWriteToAndFlush ==
    /\ \E o \in Orders({k \in Keys : kvCache[k].ok}) :
          kvLast' = [NoKVCall EXCEPT
                       !.op = "WriteTo",
                       !.writer = [i \in DOMAIN o |->
                                     WriterCall(o[i], kvCache[o[i]])]]
    /\ kvCache' = [k \in Keys |-> NoValueInfo]
    /\ UNCHANGED <<kvKeys, kvWasReset>>
    /\ KVFrame

\* KVCache.WriteTo with a writer that has received no call yet
KVWriteTo ==
    /\ \E o \in Orders({k \in Keys : kvCache[k].ok}) :
          kvLast' = [NoKVCall EXCEPT
                       !.op = "WriteTo",
                       !.writer = [i \in DOMAIN o |->
                                     WriterCall(o[i], kvCache[o[i]])]]
    /\ UNCHANGED <<kvCache, kvKeys, kvWasReset>>
    /\ KVFrame

\* KVCache.Reset: a new map; kvc.keys is not assigned
KVReset ==
    /\ kvCache' = [k \in Keys |-> NoValueInfo]
    /\ kvLast' = [NoKVCall EXCEPT !.op = "Reset"]
    /\ kvWasReset' = TRUE
    /\ UNCHANGED kvKeys
    /\ KVFrame

KVNext ==
    \/ \E key \in Keys : KVInfo(key)
    \/ \E key \in Keys : KVGet(key)
    \/ \E key \in Keys : KVHas(key)
    \/ \E key \in Keys, value \in Values : KVSet(key, value)
    \/ \E key \in Keys : KVDelete(key)
    \/ \E low \in Lows, high \in Highs : KVIterator(low, high)
    \/ \E low \in Lows, high \in Highs : KVReverseIterator(low, high)
    \/ KVWriteTo
    \/ KVReset

KVSpec == InitNoSequence /\ [][KVNext]_vars

\* ----------------------------------------- concurrent Iterator calls
\* Iterator holds the shared lock from RLock to its return, and so can
\* several callers at a time; the writers wait until no reader holds it.
\* The sort of kvc.keys is taken step by step: the comparison of the loop
\* condition, and byteSlices.Swap in two halves, the reads of bss[i] and
\* bss[j] and the assignments to them.
RaceFrame == UNCHANGED <<kvCache, kvWasReset, transactorVars, serverVars,
                         simVars, propVars, replica, moreVars>>

\* kvc.RLock() in Iterator; sort.Sort starts with i = 1 (here 2)
IteratorRLock(t) ==
    /\ kvReaders[t].pc = "out"
    /\ kvReaders' = [kvReaders EXCEPT ![t] =
                        [pc |-> "sort", i |-> 2, j |-> 2, tmp |-> <<>>]]
    /\ UNCHANGED <<kvKeys, kvLast>>
    /\ RaceFrame

\* the loop conditions of the insertion sort: i < len, j > 0 && Less(j, j-1)
IteratorSortLess(t) ==
    LET r == kvReaders[t] IN
    /\ r.pc = "sort"
    /\ kvReaders' = [kvReaders EXCEPT ![t] =
          IF r.i > Len(kvKeys) THEN [r EXCEPT !.pc = "slice"]
          ELSE IF r.j > 1 /\ byteSlicesLess(kvKeys, r.j, r.j - 1)
          THEN [r EXCEPT !.pc = "swap",
                         !.tmp = <<kvKeys[r.j], kvKeys[r.j - 1]>>]
          ELSE [r EXCEPT !.i = r.i + 1, !.j = r.i + 1]]
    /\ UNCHANGED <<kvKeys, kvLast>>
    /\ RaceFrame

\* the assignments of byteSlices.Swap(j, j-1) with the values read before
IteratorSortSwap(t) ==
    LET r == kvReaders[t] IN
    /\ r.pc = "swap"
    /\ kvKeys' = [kvKeys EXCEPT ![r.j] = r.tmp[2], ![r.j - 1] = r.tmp[1]]
    /\ kvReaders' = [kvReaders EXCEPT ![t] =
                        [r EXCEPT !.pc = "sort", !.j = r.j - 1,
                                  !.tmp = <<>>]]
    /\ UNCHANGED kvLast
    /\ RaceFrame

\* the rest of sortedKeysInDomain and newIterator over the whole key
\* space, kvc.RUnlock() and the return of the iterator
IteratorReturn(t) ==
    /\ kvReaders[t].pc = "slice"
    /\ kvLast' = [NoKVCall EXCEPT
                     !.op = "Iterator",
                     !.kvi = newIterator(kvKeys, Bytes(<<>>), NilBytes,
                                         FALSE)]
    /\ kvReaders' = [kvReaders EXCEPT ![t] = NoReader]
    /\ UNCHANGED kvKeys
    /\ RaceFrame

\* kvc.Lock() in Set returns when no reader holds the shared lock
SetExclusive(key) ==
    /\ \A t \in KVThreads : kvReaders[t].pc = "out"
    /\ KVSet(key, "v")

KVRaceNext ==
    \/ \E t \in KVThreads :
          \/ IteratorRLock(t)
          \/ IteratorSortLess(t)
          \/ IteratorSortSwap(t)
          \/ IteratorReturn(t)
    \/ \E key \in Keys : SetExclusive(key)

KVRaceSpec == InitNoSequence /\ [][KVRaceNext]_vars

\* ========================================================= proposal.Cache
\* what a call on the cache leaves alone, the second cache apart
PropFrame ==
    UNCHANGED <<transactorVars, serverVars, simVars, kvVars, moreVars>>

getNoBackend(proposalHash, berr) ==
    LET hash == ToProposalHash(proposalHash)
    IN  IF proposals[hash].ok
        THEN [err |-> FALSE, proposals |-> proposals]
        ELSE [err |-> FALSE,
              proposals |->
                  [proposals EXCEPT ![hash] =
                      [ok |-> TRUE, ballot |-> NilBallot,
                       removed |-> FALSE, updated |-> FALSE]]]

\* Cache.get: the record of the hash, made from the backend's proposal
\* when the map has none; berr: backend.GetProposal returns an error
get(proposalHash, berr) ==
    LET hash == ToProposalHash(proposalHash)
    IN  IF proposals[hash].ok
        THEN [err |-> FALSE, proposals |-> proposals]
        ELSE IF berr
        THEN [err |-> TRUE, proposals |-> proposals]
        ELSE [err |-> FALSE,
              proposals |->
                  [proposals EXCEPT ![hash] =
                      [ok |-> TRUE, ballot |-> backend[proposalHash],
                       removed |-> FALSE, updated |-> FALSE]]]

\* Cache.GetProposal
GetProposal(proposalHash) ==
    \E berr \in BOOLEAN :
        LET g == get(proposalHash, berr)
            proposalInfo == g.proposals[ToProposalHash(proposalHash)]
        IN  /\ proposals' = g.proposals
            /\ propLast' =
                  [NoProposalCall EXCEPT
                      !.op = "GetProposal", !.hash = proposalHash,
                      !.err = IF g.err THEN "backend" ELSE "none",
                      !.ballot = IF g.err \/ proposalInfo.removed
                                 THEN NilBallot ELSE proposalInfo.ballot]
            /\ UNCHANGED <<backend, propRemoved>>
            /\ PropFrame

UpdateProposalIgnoresRemoved(proposalHash, ballot) ==
    \E berr \in BOOLEAN :
        LET g == get(proposalHash, berr)
            hash == ToProposalHash(proposalHash)
        IN  /\ proposals' =
                  IF g.err THEN g.proposals
                  ELSE [g.proposals EXCEPT ![hash].ballot = ballot,
                                           ![hash].updated = TRUE]
            /\ propLast' =
                  [NoProposalCall EXCEPT
                      !.op = "UpdateProposal", !.hash = proposalHash,
                      !.ballot = ballot,
                      !.err = IF g.err THEN "backend" ELSE "none"]
            /\ UNCHANGED <<backend, propRemoved>>
            /\ PropFrame

\* Cache.UpdateProposal
UpdateProposal(proposalHash, ballot) ==
    \E berr \in BOOLEAN :
        LET g == get(proposalHash, berr)
            hash == ToProposalHash(proposalHash)
            fails == g.err \/ g.proposals[hash].removed
        IN  /\ proposals' =
                  IF fails THEN g.proposals
                  ELSE [g.proposals EXCEPT ![hash].ballot = ballot,
                                           ![hash].updated = TRUE]
            /\ propLast' =
                  [NoProposalCall EXCEPT
                      !.op = "UpdateProposal", !.hash = proposalHash,
                      !.ballot = ballot,
                      !.err = IF g.err THEN "backend"
                              ELSE IF fails THEN "removed" ELSE "none"]
            /\ UNCHANGED <<backend, propRemoved>>
            /\ PropFrame

\* Cache.RemoveProposal
RemoveProposal(proposalHash) ==
    \E berr \in BOOLEAN :
        LET g == get(proposalHash, berr)
            hash == ToProposalHash(proposalHash)
            fails == g.err \/ g.proposals[hash].removed
        IN  /\ proposals' =
                  IF fails THEN g.proposals
                  ELSE [g.proposals EXCEPT ![hash].removed = TRUE]
            /\ propLast' =
                  [NoProposalCall EXCEPT
                      !.op = "RemoveProposal", !.hash = proposalHash,
                      !.err = IF g.err THEN "backend"
                              ELSE IF fails THEN "removed" ELSE "none"]
            /\ propRemoved' =
                  IF fails THEN propRemoved ELSE propRemoved \cup {hash}
            /\ UNCHANGED backend
            /\ PropFrame

\* ProposalHashArray.Less and ProposalHashArray.Swap (positions from 1)
ProposalHashArrayLess(p, i, j) == BytesCompare(p[i], p[j]) = -1
ProposalHashArraySwap(p, i, j) == [p EXCEPT ![j] = p[i], ![i] = p[j]]

\* sort.Stable on a short slice is an insertion sort
RECURSIVE StableInner(_, _)
StableInner(p, j) ==
    IF j > 1 /\ ProposalHashArrayLess(p, j, j - 1)
    THEN StableInner(ProposalHashArraySwap(p, j, j - 1), j - 1)
    ELSE p

RECURSIVE StableOuter(_, _)
StableOuter(p, i) ==
    IF i > Len(p) THEN p ELSE StableOuter(StableInner(p, i), i + 1)

StableNone(hashes) == hashes
\* sort.Stable(hashes)
Stable(hashes) == StableOuter(hashes, 2)

SyncCallUpdatedFirst(hash) ==
    IF proposals[hash].updated
    THEN [op |-> "UpdateProposal", hash |-> ToSlice(hash),
          ballot |-> proposals[hash].ballot]
    ELSE IF proposals[hash].removed
    THEN [op |-> "RemoveProposal", hash |-> ToSlice(hash),
          ballot |-> NilBallot]
    ELSE [op |-> "none", hash |-> ToSlice(hash), ballot |-> NilBallot]

\* the call Sync makes on the writer for a hash: RemoveProposal,
\* UpdateProposal, or none (a record of no call)
SyncCall(hash) ==
    IF proposals[hash].removed
    THEN [op |-> "RemoveProposal", hash |-> ToSlice(hash),
          ballot |-> NilBallot]
    ELSE IF proposals[hash].updated
    THEN [op |-> "UpdateProposal", hash |-> ToSlice(hash),
          ballot |-> proposals[hash].ballot]
    ELSE [op |-> "none", hash |-> ToSlice(hash), ballot |-> NilBallot]

\* the calls made for the hashes in order, up to the call that is number
\* failAt, where the writer returns an error (0: it returns none)
RECURSIVE SyncCalls(_, _, _, _)
SyncCalls(hashes, n, failAt, made) ==
    IF n > Len(hashes) \/ (failAt # 0 /\ Len(made) = failAt) THEN made
    ELSE SyncCalls(hashes, n + 1, failAt,
                   IF SyncCall(hashes[n]).op = "none" THEN made
                   ELSE Append(made, SyncCall(hashes[n])))

CacheSyncAndFlush ==
    \E o \in Orders({h \in ProposalHashes : proposals[h].ok}) :
        \E hashes \in {Stable(o)} :
            \E failAt \in 0 .. Len(SyncCalls(hashes, 1, 0, <<>>)) :
                /\ propLast' =
                      [NoProposalCall EXCEPT
                          !.op = "Sync",
                          !.err = IF failAt = 0 THEN "none" ELSE "writer",
                          !.writer = SyncCalls(hashes, 1, failAt, <<>>)]
                /\ proposals' = [h \in ProposalHashes |-> NoProposalInfo]
                /\ UNCHANGED <<backend, propRemoved>>
                /\ PropFrame

\* Cache.Sync with a writer that has received no call yet
CacheSync ==
    \E o \in Orders({h \in ProposalHashes : proposals[h].ok}) :
        \E hashes \in {Stable(o)} :
            \E failAt \in 0 .. Len(SyncCalls(hashes, 1, 0, <<>>)) :
                /\ propLast' =
                      [NoProposalCall EXCEPT
                          !.op = "Sync",
                          !.err = IF failAt = 0 THEN "none" ELSE "writer",
                          !.writer = SyncCalls(hashes, 1, failAt, <<>>)]
                /\ UNCHANGED <<proposals, backend, propRemoved>>
                /\ PropFrame

CacheResetKeepsRecords(b) ==
    /\ backend' = b
    /\ propLast' = [NoProposalCall EXCEPT !.op = "Reset", !.reader = b]
    /\ propRemoved' = {}
    /\ UNCHANGED proposals
    /\ PropFrame

\* Cache.Reset(backend)
CacheReset(b) ==
    /\ backend' = b
    /\ proposals' = [h \in ProposalHashes |-> NoProposalInfo]
    /\ propLast' = [NoProposalCall EXCEPT !.op = "Reset", !.reader = b]
    /\ propRemoved' = {}
    /\ PropFrame

ProposalNext ==
    \/ \E proposalHash \in HashArgs :
          GetProposal(proposalHash) /\ UNCHANGED replica
    \/ \E proposalHash \in HashArgs, ballot \in Ballots :
          UpdateProposal(proposalHash, ballot) /\ UNCHANGED replica
    \/ \E proposalHash \in HashArgs :
          RemoveProposal(proposalHash) /\ UNCHANGED replica
    \/ CacheSync /\ UNCHANGED replica
    \/ \E b \in Backends : CacheReset(b) /\ UNCHANGED replica

ProposalSpec == InitNoSequence /\ [][ProposalNext]_vars

\* ------------------------------ two caches that are given the same calls
\* Two Cache values over the same backend. The calls on a cache are the
\* actions above and act on proposals; the first cache is given its
\* mutations and is Sync'd, then the second cache is made and is given
\* the same mutations in any order, and is Sync'd.
RemoveAt(s, i) == SubSeq(s, 1, i - 1) \o SubSeq(s, i + 1, Len(s))

\* the mutations of all that are not among those given
RECURSIVE Remaining(_, _)
Remaining(all, given) ==
    IF given = <<>> THEN all
    ELSE Remaining(
            RemoveAt(all, CHOOSE i \in 1 .. Len(all) : all[i] = given[1]),
            Tail(given))

\* the caller may give mutation m to the cache it is working on
ReplicaGiven(m) ==
    /\ ~replica.writer[replica.cur].done
    /\ IF replica.cur = 1
       THEN Len(replica.muts[1]) < MaxMutations
       ELSE m \in Range(Remaining(replica.muts[1], replica.muts[2]))

\* UpdateProposal or RemoveProposal on the cache, the backend answering
\* without error
ReplicaMutate(m) ==
    /\ ReplicaGiven(m)
    /\ IF m.op = "UpdateProposal"
       THEN UpdateProposal(m.hash, m.ballot)
       ELSE RemoveProposal(m.hash)
    /\ propLast'.err # "backend"
    /\ replica' = [replica EXCEPT !.muts[replica.cur] = Append(@, m)]

\* GetProposal on the cache between the mutations (of the proposal the
\* backend holds)
ReplicaGet(proposalHash) ==
    /\ ~replica.writer[replica.cur].done
    /\ GetProposal(proposalHash)
    /\ propLast'.err # "backend"
    /\ UNCHANGED replica

\* Sync of the cache to an empty writer, once the cache has been given
\* all its mutations
ReplicaSync ==
    /\ ~replica.writer[replica.cur].done
    /\ replica.cur = 2 => Len(replica.muts[2]) = Len(replica.muts[1])
    /\ CacheSync
    /\ replica' = [replica EXCEPT
                      !.writer[replica.cur] =
                          [done |-> TRUE, err |-> propLast'.err # "none",
                           calls |-> propLast'.writer]]

\* NewCache(backend) for the second cache, once the first has been
\* Sync'd without error
ReplicaNewCache ==
    /\ replica.cur = 1
    /\ replica.writer[1].done
    /\ ~replica.writer[1].err
    /\ replica' = [replica EXCEPT !.cur = 2]
    /\ proposals' = [h \in ProposalHashes |-> NoProposalInfo]
    /\ propLast' = NoProposalCall
    /\ propRemoved' = {}
    /\ UNCHANGED backend
    /\ PropFrame

ReplicaNext ==
    \/ \E m \in Mutations : ReplicaMutate(m)
    \/ ReplicaGet(<<0, 1>>)
    \/ ReplicaSync
    \/ ReplicaNewCache

ReplicaSpec == InitNoSequence /\ [][ReplicaNext]_vars

\* ================================== proposal.Cache under concurrent callers
\* The goroutines call GetProposal, UpdateProposal, RemoveProposal and
\* Reset at any time. A proposalInfo is a value of raceHeap and the map
\* holds its index, so that two records of one hash are two values. A
\* section of code under a lock that no step of another goroutine can
\* observe is one step: cache.RLock to cache.RUnlock in get, the body of
\* get under cache.Lock, the body of a call under the record's lock, and
\* Reset.
CacheRaceFrame ==
    UNCHANGED <<transactorVars, serverVars, simVars, kvVars, proposals,
                propLast, propRemoved, replica, bondVars, conc, held>>

\* a call of op begins: get copies the slice into a ProposalHash and
\* reads the map under cache.RLock
RaceCall(t, op, proposalHash, ballot) ==
    /\ raceCalls[t].pc = "idle"
    /\ raceLock = 0
    /\ LET propInfo == raceMap[ToProposalHash(proposalHash)]
       IN  raceCalls' =
               [raceCalls EXCEPT ![t] =
                   [NoRaceCall EXCEPT
                       !.pc = IF propInfo = 0 THEN "lock" ELSE "info",
                       !.op = op, !.hash = proposalHash,
                       !.ballot = ballot, !.info = propInfo]]
    /\ UNCHANGED <<raceMap, raceHeap, raceLock, raceGen, backend>>
    /\ CacheRaceFrame

\* get: cache.Lock() returns
RaceGetLock(t) ==
    /\ raceCalls[t].pc = "lock"
    /\ raceLock = 0
    /\ raceLock' = t
    /\ raceCalls' = [raceCalls EXCEPT ![t].pc = "locked", ![t].slow = TRUE]
    /\ UNCHANGED <<raceMap, raceHeap, raceGen, backend>>
    /\ CacheRaceFrame

\* the proposalInfo get makes of the backend's proposal
NewProposalInfo(hash, prop) ==
    [gen |-> raceGen.gen, hash |-> hash, ballot |-> prop,
     removed |-> FALSE, updated |-> FALSE]

\* the body of get under cache.Lock when the map has no record of the
\* hash: it reads the backend and stores a new record, or returns the
\* backend's error
RaceGetNew(t, hash) ==
    \/ /\ raceHeap' =
              Append(raceHeap,
                     NewProposalInfo(hash, backend[raceCalls[t].hash]))
       /\ raceMap' = [raceMap EXCEPT ![hash] = Len(raceHeap')]
       /\ raceGen' = [raceGen EXCEPT !.reads[hash] = @ + 1]
       /\ raceCalls' = [raceCalls EXCEPT ![t].pc = "info",
                                         ![t].info = Len(raceHeap')]
    \/ /\ raceCalls' = [raceCalls EXCEPT ![t] = NoRaceCall]
       /\ UNCHANGED <<raceMap, raceHeap, raceGen>>

RaceGetCreateUnchecked(t) ==
    /\ raceCalls[t].pc = "locked"
    /\ RaceGetNew(t, ToProposalHash(raceCalls[t].hash))
    /\ raceLock' = 0
    /\ UNCHANGED backend
    /\ CacheRaceFrame

\* get under cache.Lock: it reads the map again and makes the record
\* only when the map still has none; the deferred cache.Unlock()
RaceGetCreate(t) ==
    /\ raceCalls[t].pc = "locked"
    /\ LET hash == ToProposalHash(raceCalls[t].hash)
       IN  IF raceMap[hash] # 0
           THEN /\ raceCalls' = [raceCalls EXCEPT ![t].pc = "info",
                                                  ![t].info = raceMap[hash]]
                /\ UNCHANGED <<raceMap, raceHeap, raceGen>>
           ELSE RaceGetNew(t, hash)
    /\ raceLock' = 0
    /\ UNCHANGED backend
    /\ CacheRaceFrame

\* the rest of GetProposal, UpdateProposal or RemoveProposal, under the
\* lock of the record that get returned
RaceInfo(t) ==
    /\ raceCalls[t].pc = "info"
    /\ LET c == raceCalls[t]
           proposalInfo == raceHeap[c.info]
       IN  /\ raceHeap' =
                 IF proposalInfo.removed \/ c.op = "GetProposal"
                 THEN raceHeap
                 ELSE IF c.op = "UpdateProposal"
                 THEN [raceHeap EXCEPT ![c.info].ballot = c.ballot,
                                       ![c.info].updated = TRUE]
                 ELSE [raceHeap EXCEPT ![c.info].removed = TRUE]
           /\ raceCalls' = [raceCalls EXCEPT ![t] = NoRaceCall]
    /\ UNCHANGED <<raceMap, raceLock, raceGen, backend>>
    /\ CacheRaceFrame

\* Cache.Reset(b) by one more goroutine
RaceReset(b) ==
    /\ raceLock = 0
    /\ raceGen.gen < MaxResets
    /\ backend' = b
    /\ raceMap' = [h \in ProposalHashes |-> 0]
    /\ raceGen' = [gen |-> raceGen.gen + 1,
                   reads |-> [h \in ProposalHashes |-> 0]]
    /\ UNCHANGED <<raceHeap, raceLock, raceCalls>>
    /\ CacheRaceFrame

ProposalRaceNext ==
    \/ \E t \in RaceThreads :
          \/ \E op \in RaceOps, proposalHash \in RaceHashArgs :
                RaceCall(t, op, proposalHash,
                         IF op = "UpdateProposal" THEN "b2" ELSE NilBallot)
          \/ RaceGetLock(t)
          \/ RaceGetCreate(t)
          \/ RaceInfo(t)
    \/ \E b \in Backends : RaceReset(b)

ProposalRaceSpec == InitNoSequence /\ [][ProposalRaceNext]_vars

\* ======================================= KVCache with a kept iterator
\* The KVCache with the array that kvc.keys and the keys of an iterator
\* are slices of. The caller keeps one iterator (held.it) and consumes it
\* later; it reads the array its slice was cut from.
HeldFrame ==
    UNCHANGED <<transactorVars, serverVars, simVars, kvVars, propVars,
                replica, bondVars, raceVars, conc>>

\* the capacity append(kvc.keys, key) gives the new array when the old
\* one is full: growslice doubles a short slice
Grow(cap) == IF cap = 0 THEN 1 ELSE 2 * cap

\* kvc.keys = append(kvc.keys, key) on the first Set or Delete of a key:
\* in place when the array has room, else into a new array, which the
\* slices cut from the old one do not follow
HeldAppend(c, key) ==
    IF c.cache[key].ok THEN c
    ELSE IF Len(c.keys) < c.cap
    THEN [c EXCEPT !.keys = Append(@, key)]
    ELSE [c EXCEPT !.keys = Append(@, key),
                   !.cap = Grow(@),
                   !.it.shared = FALSE,
                   !.it.array = IF c.it.shared THEN c.keys ELSE @]

\* KVCache.Set
HeldSet(key, value) ==
    /\ held' = [HeldAppend(held, key) EXCEPT
                  !.cache[key] =
                      [ok |-> TRUE, value |-> value, deleted |-> FALSE]]
    /\ HeldFrame

\* KVCache.Delete
HeldDelete(key) ==
    /\ held' = [HeldAppend(held, key) EXCEPT
                  !.cache[key] =
                      [ok |-> TRUE, value |-> NilValue, deleted |-> TRUE]]
    /\ HeldFrame

\* KVCache.Iterator and ReverseIterator: NormaliseDomain, sort.Sort of
\* kvc.keys in its array, and newIterator, whose keys are a slice of that
\* array. The caller keeps the iterator or has kept an earlier one
HeldIterator(low, high, reverse, keep) ==
    LET d == NormaliseDomain(low, high)
    IN  /\ keep \/ held.it.made
        /\ \E sortedKeys \in {Sort(held.keys)} :
              held' = [held EXCEPT
                         !.keys = sortedKeys,
                         !.it = IF keep
                                THEN [made |-> TRUE,
                                      kvi |-> newIterator(sortedKeys, d[1],
                                                          d[2], reverse),
                                      shared |-> TRUE, array |-> <<>>]
                                ELSE @]
        /\ HeldFrame

\* the keys the kept iterator gives its caller
HeldYield ==
    Yield(held.it.kvi, IF held.it.shared THEN held.keys ELSE held.it.array)

HeldNext ==
    \/ \E key \in HeldKeys : HeldSet(key, "v")
    \/ \E key \in HeldKeys : HeldDelete(key)
    \/ \E low \in Lows, high \in Highs, reverse \in BOOLEAN :
          HeldIterator(low, high, reverse, TRUE)
    \/ HeldIterator(NilBytes, NilBytes, FALSE, FALSE)

HeldSpec == InitNoSequence /\ [][HeldNext]_vars

\* ============================================ proposal.Cache, its locks
\* The cache with cache.RWMutex and the RWMutex of every proposalInfo.
\* Taking a lock is a step of its own, which waits until the lock can be
\* had; the code from there to the next Lock or RLock, with the unlocks on
\* the way, is the step after it. A call begins with its first lock.
ConcFrame ==
    UNCHANGED <<transactorVars, serverVars, simVars, kvVars, proposals,
                propLast, propRemoved, replica, bondVars, raceVars, held>>

\* sync.RWMutex: RLock returns when no goroutine is inside Lock, Lock when
\* no goroutine is inside Lock or RLock
CanRLock(mu) == mu.w = 0
CanLock(mu) == mu.w = 0 /\ mu.r = {}
RLock(mu, t) == [mu EXCEPT !.r = @ \cup {t}]
RUnlock(mu, t) == [mu EXCEPT !.r = @ \ {t}]
Lock(mu, t) == [mu EXCEPT !.w = t]
UnlockMutex(mu) == [mu EXCEPT !.w = 0]

\* the calls in flight forget the update they expected of the hash
Forget(calls, hash) ==
    [u \in ConcThreads |-> [calls[u] EXCEPT !.expect[hash] = NilBallot]]

\* the goroutine holds the record of the hash in generation g
Holds(c, g, h) ==
    /\ c.pc \in {"info", "held"}
    /\ c.info = g
    /\ ToProposalHash(c.hash) = h

\* garbage collection: a record of a map that Reset has replaced is gone
\* when no goroutine holds it
Collect(cache) ==
    [cache EXCEPT
        !.heap = [g \in Generations |-> [h \in ConcHashes |->
                    IF g < cache.gen
                       /\ \A t \in ConcAccessors :
                             ~Holds(cache.calls[t], g, h)
                    THEN NoConcInfo
                    ELSE cache.heap[g][h]]]]

\* get of GetProposal, UpdateProposal or RemoveProposal: cache.RLock()
ConcGetRLock(t, op, proposalHash) ==
    /\ conc.calls[t].pc = "idle"
    /\ CanRLock(conc.mu)
    /\ conc' = [conc EXCEPT
                  !.mu = RLock(@, t),
                  !.calls[t] =
                      [NoConcCall EXCEPT
                          !.pc = "rlocked", !.op = op,
                          !.hash = proposalHash,
                          !.ballot = IF op = "UpdateProposal"
                                     THEN "b2" ELSE NilBallot,
                          !.expect =
                              [h \in ConcHashes |->
                                  IF h = ToProposalHash(proposalHash)
                                     /\ op = "GetProposal"
                                  THEN conc.last[h] ELSE NilBallot]]]
    /\ UNCHANGED backend
    /\ ConcFrame

\* get: propInfo := cache.proposals[hash]; cache.RUnlock()
ConcGetRead(t) ==
    /\ conc.calls[t].pc = "rlocked"
    /\ LET hash == ToProposalHash(conc.calls[t].hash)
       IN  conc' = [conc EXCEPT
                      !.mu = RUnlock(@, t),
                      !.calls[t].pc =
                          IF conc.heap[conc.gen][hash].ok
                          THEN "info" ELSE "lock",
                      !.calls[t].info =
                          IF conc.heap[conc.gen][hash].ok
                          THEN conc.gen ELSE -1]
    /\ UNCHANGED backend
    /\ ConcFrame

\* get: cache.Lock()
ConcGetLock(t) ==
    /\ conc.calls[t].pc = "lock"
    /\ CanLock(conc.mu)
    /\ conc' = [conc EXCEPT !.mu = Lock(@, t), !.calls[t].pc = "locked"]
    /\ UNCHANGED backend
    /\ ConcFrame

\* &proposalInfo{ballot: prop} with its RWMutex
ConcProposalInfo(prop) == [NoConcInfo EXCEPT !.ok = TRUE, !.ballot = prop]

\* get under cache.Lock: the second read of the map, the read of the
\* backend and the new record, or the backend's error; the deferred
\* cache.Unlock()
ConcGetCreate(t) ==
    /\ conc.calls[t].pc = "locked"
    /\ LET c == conc.calls[t]
           hash == ToProposalHash(c.hash)
       IN  IF conc.heap[conc.gen][hash].ok
           THEN conc' = [conc EXCEPT
                           !.mu = UnlockMutex(@),
                           !.calls[t].pc = "info",
                           !.calls[t].info = conc.gen]
           ELSE \/ conc' = [conc EXCEPT
                              !.mu = UnlockMutex(@),
                              !.heap[conc.gen][hash] =
                                  ConcProposalInfo(backend[c.hash]),
                              !.calls[t].pc = "info",
                              !.calls[t].info = conc.gen]
                \/ conc' = [conc EXCEPT
                              !.mu = UnlockMutex(@),
                              !.calls[t] = NoConcCall]
    /\ UNCHANGED backend
    /\ ConcFrame

\* the record that get returned to the call
ConcInfo(t) ==
    conc.heap[conc.calls[t].info][ToProposalHash(conc.calls[t].hash)]

\* proposalInfo.RLock() of GetProposal, proposalInfo.Lock() of
\* UpdateProposal and RemoveProposal
ConcInfoLock(t) ==
    /\ conc.calls[t].pc = "info"
    /\ LET c == conc.calls[t]
           hash == ToProposalHash(c.hash)
       IN  IF c.op = "GetProposal"
           THEN /\ CanRLock(ConcInfo(t).mu)
                /\ conc' = [conc EXCEPT
                              !.heap[c.info][hash].mu = RLock(@, t),
                              !.calls[t].pc = "held"]
           ELSE /\ CanLock(ConcInfo(t).mu)
                /\ conc' = [conc EXCEPT
                              !.heap[c.info][hash].mu = Lock(@, t),
                              !.calls[t].pc = "held"]
    /\ UNCHANGED backend
    /\ ConcFrame

\* what the call returns from under the record's lock: the ballot that
\* GetProposal returns, and the error of all three
ConcReturns(t) ==
    IF conc.calls[t].op = "GetProposal"
    THEN [ballot |-> IF ConcInfo(t).removed THEN NilBallot
                     ELSE ConcInfo(t).ballot,
          err |-> FALSE]
    ELSE [ballot |-> NilBallot, err |-> ConcInfo(t).removed]

\* the rest of GetProposal, UpdateProposal or RemoveProposal under the
\* record's lock, and the deferred unlock
ConcInfoBody(t) ==
    /\ conc.calls[t].pc = "held"
    /\ LET c == conc.calls[t]
           hash == ToProposalHash(c.hash)
       IN  IF c.op = "GetProposal"
           THEN conc' = Collect([conc EXCEPT
                           !.heap[c.info][hash].mu = RUnlock(@, t),
                           !.calls[t] = NoConcCall])
           ELSE IF ConcReturns(t).err
           THEN conc' = Collect([conc EXCEPT
                           !.heap[c.info][hash].mu = UnlockMutex(@),
                           !.calls[t] = NoConcCall])
           ELSE IF c.op = "UpdateProposal"
           THEN conc' = Collect([conc EXCEPT
                           !.heap[c.info][hash].mu = UnlockMutex(@),
                           !.heap[c.info][hash].ballot = c.ballot,
                           !.heap[c.info][hash].updated = TRUE,
                           !.last[hash] = c.ballot,
                           !.calls = [Forget(@, hash) EXCEPT
                                         ![t] = NoConcCall]])
           ELSE conc' = Collect([conc EXCEPT
                           !.heap[c.info][hash].mu = UnlockMutex(@),
                           !.heap[c.info][hash].removed = TRUE,
                           !.last[hash] = NilBallot,
                           !.calls = [Forget(@, hash) EXCEPT
                                         ![t] = NoConcCall]])
    /\ UNCHANGED backend
    /\ ConcFrame

\* Sync: cache.Lock(), the hashes of the map in the order the map gives
\* them, sort.Stable
ConcSync(t) ==
    /\ conc.calls[t].pc = "idle"
    /\ CanLock(conc.mu)
    /\ \E o \in Orders({h \in ConcHashes : conc.heap[conc.gen][h].ok}) :
          \E hashes \in {Stable(o)} :
              conc' = [conc EXCEPT
                         !.mu = Lock(@, t),
                         !.calls[t] =
                             [NoConcCall EXCEPT
                                 !.pc = "sync", !.op = "Sync",
                                 !.hashes = hashes, !.i = 1,
                                 !.expect = conc.last]]
    /\ UNCHANGED backend
    /\ ConcFrame

\* Sync: proposalInfo.RLock() of the next hash
ConcSyncRLock(t) ==
    /\ conc.calls[t].pc = "sync"
    /\ conc.calls[t].i <= Len(conc.calls[t].hashes)
    /\ LET c == conc.calls[t]
           hash == c.hashes[c.i]
       IN  /\ CanRLock(conc.heap[conc.gen][hash].mu)
           /\ conc' = [conc EXCEPT
                         !.heap[conc.gen][hash].mu = RLock(@, t),
                         !.calls[t].pc = "syncheld"]
    /\ UNCHANGED backend
    /\ ConcFrame

\* the call Sync makes on the writer for the record of the hash:
\* RemoveProposal, UpdateProposal, or none
ConcSyncCallOf(hash, proposalInfo) ==
    IF proposalInfo.removed
    THEN [op |-> "RemoveProposal", hash |-> ToSlice(hash),
          ballot |-> NilBallot]
    ELSE IF proposalInfo.updated
    THEN [op |-> "UpdateProposal", hash |-> ToSlice(hash),
          ballot |-> proposalInfo.ballot]
    ELSE [op |-> "none", hash |-> ToSlice(hash), ballot |-> NilBallot]

ConcSyncCallKeepsRLock(t) ==
    /\ conc.calls[t].pc = "syncheld"
    /\ LET c == conc.calls[t]
           hash == c.hashes[c.i]
           made == ConcSyncCallOf(hash, conc.heap[conc.gen][hash])
       IN  \/ /\ made.op # "none"
              /\ conc' = [conc EXCEPT
                            !.mu = UnlockMutex(@),
                            !.calls[t] = NoConcCall]
           \/ conc' = [conc EXCEPT
                         !.heap[conc.gen][hash].mu = RUnlock(@, t),
                         !.calls[t].pc = "sync",
                         !.calls[t].i = @ + 1,
                         !.calls[t].made =
                             IF made.op = "none" THEN @
                             ELSE Append(@, made)]
    /\ UNCHANGED backend
    /\ ConcFrame

\* Sync: the body of the loop under the record's RLock. When the writer
\* returns an error Sync gives the record's lock back and returns, its
\* deferred cache.Unlock() runs
ConcSyncCall(t) ==
    /\ conc.calls[t].pc = "syncheld"
    /\ LET c == conc.calls[t]
           hash == c.hashes[c.i]
           made == ConcSyncCallOf(hash, conc.heap[conc.gen][hash])
       IN  \/ /\ made.op # "none"
              /\ conc' = [conc EXCEPT
                            !.heap[conc.gen][hash].mu = RUnlock(@, t),
                            !.mu = UnlockMutex(@),
                            !.calls[t] = NoConcCall]
           \/ conc' = [conc EXCEPT
                         !.heap[conc.gen][hash].mu = RUnlock(@, t),
                         !.calls[t].pc = "sync",
                         !.calls[t].i = @ + 1,
                         !.calls[t].made =
                             IF made.op = "none" THEN @
                             ELSE Append(@, made)]
    /\ UNCHANGED backend
    /\ ConcFrame

\* Sync: return nil after the loop, the deferred cache.Unlock()
ConcSyncReturn(t) ==
    /\ conc.calls[t].pc = "sync"
    /\ conc.calls[t].i > Len(conc.calls[t].hashes)
    /\ conc' = [conc EXCEPT !.mu = UnlockMutex(@),
                            !.calls[t] = NoConcCall]
    /\ UNCHANGED backend
    /\ ConcFrame

\* Reset(b): cache.Lock(). No update is expected by anyone once a Reset
\* has begun
ConcReset(t, b) ==
    /\ conc.calls[t].pc = "idle"
    /\ conc.gen + 1 \in Generations
    /\ CanLock(conc.mu)
    /\ conc' = [conc EXCEPT
                  !.mu = Lock(@, t),
                  !.last = NoUpdates,
                  !.calls = [u \in ConcThreads |->
                                IF u = t
                                THEN [NoConcCall EXCEPT
                                         !.pc = "reset", !.op = "Reset",
                                         !.reader = b]
                                ELSE [conc.calls[u] EXCEPT
                                         !.expect = NoUpdates]]]
    /\ UNCHANGED backend
    /\ ConcFrame

\* Reset: the new backend and the new map, the deferred cache.Unlock()
ConcResetBody(t) ==
    /\ conc.calls[t].pc = "reset"
    /\ backend' = conc.calls[t].reader
    /\ conc' = Collect([conc EXCEPT
                  !.mu = UnlockMutex(@),
                  !.gen = @ + 1,
                  !.calls[t] = NoConcCall])
    /\ ConcFrame

ConcNext ==
    \/ \E t \in ConcAccessors :
          \/ \E a \in ConcCallArgs : ConcGetRLock(t, a[1], a[2])
          \/ ConcGetRead(t)
          \/ ConcGetLock(t)
          \/ ConcGetCreate(t)
          \/ ConcInfoLock(t)
          \/ ConcInfoBody(t)
    \/ \E t \in ConcThreads \ ConcAccessors :
          \/ ConcSync(t)
          \/ ConcSyncRLock(t)
          \/ ConcSyncCall(t)
          \/ ConcSyncReturn(t)
          \/ \E b \in Backends : ConcReset(t, b)
          \/ ConcResetBody(t)

ConcSpec == InitNoSequence /\ [][ConcNext]_vars

\* =========================================================== BondContext
BondFrame ==
    UNCHANGED <<transactorVars, serverVars, simVars, kvVars, propVars,
                replica, raceVars, conc, held>>

\* hasBondPermission(ctx.State, account, ctx.Logger)
hasBondPermission(account) == account.bond

\* account.SubtractFromBalance(amount): an error when the balance is
\* smaller than the amount
SubtractFromBalance(account, amount) ==
    IF amount > account.balance
    THEN [err |-> TRUE, account |-> account]
    ELSE [err |-> FALSE,
          account |-> [account EXCEPT !.balance = @ - amount]]

\* validator.AddPower(ctx.ValidatorSet, account.PublicKey, power): the
\* power of the key, 0 when the set has no validator of it, plus power
AddPower(vs, publicKey, power) == [vs EXCEPT ![publicKey] = @ + power]

ExecuteErrorPermissionFirst(kind, account, amount, fail) ==
    IF kind # "BondTx" THEN "WrongPayload"
    ELSE IF fail = "GetAccount" THEN "GetAccountError"
    ELSE IF ~account.exists THEN "panic"
    ELSE IF ~hasBondPermission(account) THEN "PermissionDenied"
    ELSE IF account.curve = "secp256k1" THEN "Secp256k1"
    ELSE IF amount = 0 THEN "ZeroAmount"
    ELSE IF account.balance < amount THEN "InsufficientFunds"
    ELSE IF SubtractFromBalance(account, amount).err THEN "SubtractError"
    ELSE IF fail = "AddPower" THEN "AddPowerError"
    ELSE IF fail = "UpdateAccount" THEN "UpdateAccountError"
    ELSE "nil"

\* the error Execute returns ("nil": none; "panic": it dereferences the
\* nil account that GetAccount returns for an address without account),
\* given which of GetAccount, AddPower and UpdateAccount fails
ExecuteError(kind, account, amount, fail) ==
    IF kind # "BondTx" THEN "WrongPayload"
    ELSE IF fail = "GetAccount" THEN "GetAccountError"
    ELSE IF ~account.exists THEN "panic"
    ELSE IF account.curve = "secp256k1" THEN "Secp256k1"
    ELSE IF ~hasBondPermission(account) THEN "PermissionDenied"
    ELSE IF amount = 0 THEN "ZeroAmount"
    ELSE IF account.balance < amount THEN "InsufficientFunds"
    ELSE IF SubtractFromBalance(account, amount).err THEN "SubtractError"
    ELSE IF fail = "AddPower" THEN "AddPowerError"
    ELSE IF fail = "UpdateAccount" THEN "UpdateAccountError"
    ELSE "nil"

ExecuteKeepsAccount(kind, address, amount) ==
    \E fail \in Failures :
        LET ret == ExecuteError(kind, accounts[address], amount, fail)
        IN  /\ validators' =
                  IF ret \in {"UpdateAccountError", "nil"}
                  THEN AddPower(validators, address, amount)
                  ELSE validators
            /\ accounts' = accounts
            /\ bondLast' = [kind |-> kind, address |-> address,
                            amount |-> amount, ret |-> ret]
            /\ bondHist' =
                  IF ret = "nil"
                  THEN [bondHist EXCEPT !.bonded[address] = @ + amount]
                  ELSE bondHist
            /\ BondFrame

\* BondContext.Execute(txe, p) for a payload of the kind, with
\* tx.Input.Address and tx.Input.Amount: AddPower is called once the
\* checks have passed, UpdateAccount once AddPower has returned no error
Execute(kind, address, amount) ==
    \E fail \in Failures :
        LET ret == ExecuteError(kind, accounts[address], amount, fail)
        IN  /\ validators' =
                  IF ret \in {"UpdateAccountError", "nil"}
                  THEN AddPower(validators, address, amount)
                  ELSE validators
            /\ accounts' =
                  IF ret = "nil"
                  THEN [accounts EXCEPT ![address] =
                          SubtractFromBalance(@, amount).account]
                  ELSE accounts
            /\ bondLast' = [kind |-> kind, address |-> address,
                            amount |-> amount, ret |-> ret]
            /\ bondHist' =
                  IF ret = "nil"
                  THEN [bondHist EXCEPT !.bonded[address] = @ + amount]
                  ELSE bondHist
            /\ BondFrame

BondNext ==
    \E kind \in PayloadKinds, address \in Addresses, amount \in Amounts :
        /\ validators[address] + amount <= MaxPower
        /\ Execute(kind, address, amount)

\* the initial states of BondSpec: any genesis of BondGenesis, the other
\* components as constructed
BondSpecInit ==
    /\ ServerInit
    /\ KVInit
    /\ ProposalInit
    /\ ReplicaInit
    /\ CacheRaceInit
    /\ ConcInit
    /\ HeldInit
    /\ TransactorInit
    /\ seq0 = 0
    /\ BondGenesis

BondSpec == BondSpecInit /\ [][BondNext]_vars

\* ================================================================ claims
Sync(p) == call[p].op = "BroadcastTxSync"
Async(p) == call[p].op = "BroadcastTxAsync"
\* p broadcasts an envelope that the Transactor signs with mempool sequencing
MempoolSigned(p) == (Sync(p) \/ Async(p)) /\ ~call[p].presigned
Uses(p, a) == a \in Range(call[p].inputs)
\* the sequence of the input of p's tx with address a
SeqAt(p, a) ==
    seqs[p][CHOOSE i \in 1 .. Len(call[p].inputs) : call[p].inputs[i] = a]
InMempool(p) == txStatus[p] \in {"accepted", "committed"}

\* the case of C1: every tx from address a is broadcast unsigned, and no
\* call gave up on its CheckTx response (its context was not cancelled
\* between submission and the response)
SequencedByTransactor(a) ==
    \A p \in Procs :
        Uses(p, a) /\ (Sync(p) \/ Async(p)) =>
            /\ ~call[p].presigned
            /\ result[p].kind # "CheckTxCancelled"

C2_LockHeldUntilCheckTx ==
    \A p \in Procs :
        Sync(p) /\ MempoolSigned(p) =>
            /\ pc[p] = "sign" =>
                  \A i \in 1 .. idx[p] - 1 : lock[call[p].inputs[i]] = p
            /\ pc[p] \in {"subscribe", "checktx", "waitcheck"} =>
                  \A a \in Range(call[p].inputs) : lock[a] = p
            /\ pc[p] = "waitcommit" => \A a \in Addrs : lock[a] # p

\* p waits for its commit while another caller already holds the signing
\* lock of one of p's inputs
C2_Witness ==
    \E p \in Procs, q \in Procs :
        /\ Sync(p) /\ MempoolSigned(p) /\ pc[p] = "waitcommit"
        /\ q # p
        /\ \E a \in Range(call[p].inputs) : lock[a] = q

\* C3: the unlock returned by MaybeSignTxMempool is idempotent: the first
\* call runs the unlock of SignTxMempool once (however often unlock is
\* called in a row), every later call changes nothing, and no mutex is
\* unlocked twice.
C3_UnlockIdempotent ==
    [][\A p \in Procs :
          unlockCalls'[p] > unlockCalls[p] =>
              /\ once[p] = "armed" =>
                    /\ unlockRuns'[p] = unlockRuns[p] + 1
                    /\ \A a \in Range(unlockers[p]) : lock'[a] = 0
              /\ once[p] # "armed" =>
                    /\ lock' = lock
                    /\ unlockRuns' = unlockRuns
              /\ unlockRuns'[p] <= 1
              /\ fatal' = fatal]_vars

\* the eager unlock after CheckTx and the deferred unlock have both been
\* called in a call that returned its TxExecution
C3_Witness ==
    \E p \in Procs :
        /\ Sync(p) /\ MempoolSigned(p)
        /\ pc[p] = "done" /\ result[p].kind = "TxExecution"
        /\ unlockCalls[p] = 2 /\ unlockRuns[p] = 1

\* C4: the subscription of BroadcastTxSync is for the hash of the tx as it
\* is submitted and exists before the submission, so a TxExecution
\* published while the call still waits (for the CheckTx response or for
\* the commit) is in the subscription's buffer, and the TxExecution the
\* call returns is the one of its own tx.
C4_SubscribedBeforeSubmit ==
    \A p \in Procs :
        Sync(p) =>
            /\ txStatus[p] # "none" /\ pc[p] # "done" =>
                  subs[p].open /\ subs[p].query = HashOf(p, seqs[p])
            /\ txStatus[p] = "committed"
               /\ pc[p] \in {"waitcheck", "waitcommit"} =>
                  \E i \in 1 .. Len(subs[p].buf) :
                      subs[p].buf[i].hash = HashOf(p, seqs[p])
            /\ result[p].kind = "TxExecution" =>
                  /\ result[p].hash = HashOf(p, seqs[p])
                  /\ txStatus[p] = "committed"

\* the TxExecution was published before the call received the CheckTx
\* response
C4_Witness ==
    \E p \in Procs :
        /\ Sync(p) /\ MempoolSigned(p)
        /\ pc[p] = "waitcheck" /\ responseCh[p] # <<>>
        /\ txStatus[p] = "committed"
        /\ subs[p].buf # <<>>

\* p receives the head of responseCh in the select of CheckTxSyncRaw
ReceivesResponse(p) ==
    /\ pc[p] = "waitcheck" /\ pc'[p] # "waitcheck"
    /\ responseCh[p] # <<>>
    /\ responseCh'[p] = Tail(responseCh[p])

\* C5: when the CheckTx response carries a code other than success,
\* BroadcastTxSync returns right away (it does not wait for a commit) with
\* an error that carries that code and the log, and its subscription is
\* removed.
C5_CheckTxErrorReturned ==
    [][\A p \in Procs :
          Sync(p) /\ ReceivesResponse(p)
          /\ Head(responseCh[p]).kind = "CheckTx"
          /\ Head(responseCh[p]).code # TxExecutionSuccessCode =>
              /\ pc'[p] = "done"
              /\ result'[p].kind = "CheckTxError"
              /\ result'[p].code = Head(responseCh[p]).code
              /\ result'[p].log = Head(responseCh[p]).log
              /\ ~subs'[p].open]_vars

\* a BroadcastTxSync has returned the error of a rejected CheckTx
C5_Witness ==
    \E p \in Procs :
        /\ Sync(p) /\ pc[p] = "done"
        /\ result[p].kind = "CheckTxError"
        /\ result[p].code \in ErrorCodes
        /\ result[p].log = AbciLog(result[p].code)
        /\ txStatus[p] = "rejected"

\* C6: a BroadcastTxSync whose context is cancelled during the wait for
\* the commit returns a timeout error and leaves the tx where it is: it
\* stays in the mempool and can still be committed after the return.
C6_TimeoutKeepsTx ==
    /\ [](\A p \in Procs :
            result[p].kind = "Timeout" =>
                /\ pc[p] = "done"
                /\ InMempool(p)
                /\ txStatus[p] = "accepted" /\ NextAfter(p, cseq) =>
                      ENABLED Commit(p))
    /\ [][\A p \in Procs :
            result'[p].kind = "Timeout" /\ result[p].kind # "Timeout" =>
                /\ pc[p] = "waitcommit"
                /\ UNCHANGED <<txStatus, mseq, cseq>>]_vars

\* the call has returned the timeout and its tx is still in the mempool,
\* next in line to be committed
C6_Witness ==
    \E p \in Procs :
        /\ Sync(p) /\ pc[p] = "done" /\ result[p].kind = "Timeout"
        /\ txStatus[p] = "accepted" /\ NextAfter(p, cseq)

\* p receives the head of its subscription channel at the end of
\* BroadcastTxSync
ReceivesTxExecution(p) ==
    /\ pc[p] = "waitcommit" /\ pc'[p] = "done"
    /\ subs[p].buf # <<>>
    /\ result'[p].kind # "Timeout"

\* C7: for the TxExecution it receives, BroadcastTxSync returns an error
\* when the exception is neither absent nor a revert, and otherwise the
\* TxExecution itself with its exception (none or the revert).
C7_ExecutionResult ==
    [][\A p \in Procs :
          ReceivesTxExecution(p) =>
              LET txe == Head(subs[p].buf)
              IN  IF txe.exc \in {"none", "ExecutionReverted"}
                  THEN /\ result'[p].kind = "TxExecution"
                       /\ result'[p].hash = txe.hash
                       /\ result'[p].exc = txe.exc
                  ELSE result'[p].kind = "ExecutionError"]_vars

\* a reverted TxExecution was returned without error
C7_Witness ==
    \E p \in Procs :
        /\ Sync(p) /\ pc[p] = "done"
        /\ result[p].kind = "TxExecution"
        /\ result[p].exc = "ExecutionReverted"

\* C8: when BroadcastTxSync has returned, on whatever path, the emitter
\* holds no subscription of that call.
C8_UnsubscribedOnReturn ==
    \A p \in Procs : pc[p] = "done" => subs[p] = NoSub

\* both calls have returned after they had subscribed, one with an
\* execution error and one with a CheckTx error
C8_Witness ==
    \E p \in Procs, q \in Procs :
        /\ Sync(p) /\ pc[p] = "done" /\ result[p].kind = "ExecutionError"
        /\ Sync(q) /\ pc[q] = "done" /\ result[q].kind = "CheckTxError"

\* C9: BroadcastTxAsync returns without waiting for the commit, with the
\* receipt of a tx that the mempool accepted, and when it has returned,
\* with a receipt or with an error, it holds no signing lock.
C9_AsyncReleasesLocks ==
    \A p \in Procs :
        Async(p) =>
            /\ pc[p] # "waitcommit"
            /\ result[p].kind = "Receipt" =>
                  InMempool(p) /\ result[p].hash = HashOf(p, seqs[p])
            /\ MempoolSigned(p) /\ txStatus[p] # "none" =>
                  \A i \in 1 .. Len(seqs[p]) : seqs[p][i] > 0
            /\ pc[p] = "done" => \A a \in Addrs : lock[a] # p

\* C10: SignTx takes no signing lock and does not wait for one: it can
\* return whoever holds the locks of its inputs, and its steps change
\* neither a lock nor a mempool sequence.
C10_SignTxNoLock ==
    /\ [](\A p \in Procs :
            call[p].op = "SignTx" =>
                /\ \A a \in Addrs : lock[a] # p
                /\ unlockers[p] = <<>>
                /\ pc[p] = "signtx" => ENABLED SignTx(p))
    /\ [][\A p \in Procs :
            call'[p].op = "SignTx" /\ pc'[p] # pc[p] =>
                UNCHANGED <<lock, mseq, cseq, txStatus>>]_vars

\* SignTx has returned the signed envelope while a BroadcastTxSync that is
\* still waiting for its CheckTx response holds the lock of the same
\* address
C10_Witness ==
    \E p \in Procs, q \in Procs, a \in Addrs :
        /\ call[p].op = "SignTx" /\ Uses(p, a)
        /\ pc[p] = "done" /\ result[p].kind = "Envelope"
        /\ Sync(q) /\ pc[q] = "waitcheck" /\ lock[a] = q

\* ------------------------------------------------------ transactServer
\* C11: GetEnvelope gives the handler the prebuilt envelope when the
\* request has one, and otherwise the payload enclosed in an unsigned
\* envelope with the chain id of this chain; that envelope is what the
\* Transactor receives. A request with neither envelope nor payload makes
\* BroadcastTxSync, BroadcastTxAsync and SignTx return the invalid-request
\* error with nothing signed, no sequence assigned, no lock taken and
\* nothing submitted to the mempool.
C11_GetEnvelope ==
    \A p \in RpcProcs :
        pc[p] # "idle" =>
            LET te == param[p]
                empty == te.nil \/ (te.envelope.nil /\ te.payload.nil)
            IN  /\ ~te.nil /\ ~te.envelope.nil => txEnv[p] = te.envelope
                /\ ~te.nil /\ te.envelope.nil /\ ~te.payload.nil =>
                      txEnv[p] = [nil |-> FALSE, chainID |-> ChainID,
                                  inputs |-> te.payload.inputs,
                                  signed |-> FALSE]
                /\ ~empty =>
                      /\ call[p].inputs = txEnv[p].inputs
                      /\ call[p].presigned = txEnv[p].signed
                /\ empty =>
                      /\ txEnv[p].nil
                      /\ pc[p] = "done"
                      /\ result[p].kind = "InvalidRequest"
                      /\ call[p] = NoCall
                      /\ ~signed[p] /\ seqs[p] = <<>>
                      /\ unlockers[p] = <<>> /\ once[p] = "nil"
                      /\ \A a \in Addrs : lock[a] # p
                      /\ txStatus[p] = "none" /\ responseCh[p] = <<>>
                      /\ mseq = cseq

\* a request without envelope and payload has been answered with the
\* invalid-request error
C11_Witness ==
    \E p \in RpcProcs :
        /\ ~param[p].nil
        /\ param[p].envelope.nil /\ param[p].payload.nil
        /\ pc[p] = "done" /\ result[p].kind = "InvalidRequest"

\* C12: BroadcastTxSync waits under a deadline of one hour when the
\* request names no timeout, and under a deadline of at most one hour
\* whatever timeout the request names.
C12_DeadlineAtMostOneHour ==
    \A p \in RpcProcs :
        ctxTimeout[p].set =>
            /\ param[p].timeout = ctxTimeout[p].d
            /\ ctxTimeout[p].d > 0
            /\ ctxTimeout[p].d <= maxBroadcastSyncTimeout

\* C13: a simulation holds ts.lock exactly while it runs: the lock is
\* held by the one simulation that is running and is free whenever none
\* is running, whether the simulations before returned a result, an error
\* or panicked, so that a simulation waiting for the lock can take it as
\* soon as the running one has returned.
C13_SimLockReleased ==
    /\ tsLock # 0 => sim[tsLock].pc = "sim"
    /\ \A s \in SimCallers :
          /\ sim[s].pc = "sim" => tsLock = s
          /\ sim[s].pc = "lock"
             /\ (\A r \in SimCallers : sim[r].pc # "sim") =>
                ENABLED SimLock(s)

\* a simulation runs under the lock after another one has failed and a
\* third one has panicked
C13_Witness ==
    \E s \in SimCallers, r \in SimCallers, q \in SimCallers :
        /\ sim[s].pc = "sim" /\ tsLock = s
        /\ sim[r].pc = "done" /\ sim[r].ret = "error"
        /\ sim[q].pc = "done" /\ sim[q].ret = "panic"

\* ---------------------------------------------------------------- KVCache
\* the step is a call of op on key
KVStepOn(op, key) == kvLast'.op = op /\ kvLast'.key = key

\* C14: what a read of key k returns is decided by the last Set or Delete
\* of k alone: Set(k, v) makes Get(k) = v, Has(k) true and Info(k) =
\* (v, not deleted), whatever was done to k before; Delete(k) makes
\* Get(k) nil, Has(k) false and Info(k) = (nil, deleted); and no call
\* other than Set(k), Delete(k) and Reset changes what the reads of k
\* return.
C14_LastWriteDecides ==
    [][\A k \in Keys :
          IF KVStepOn("Set", k)
          THEN /\ GetOf(kvCache', k) = kvLast'.value
               /\ HasOf(kvCache', k)
               /\ InfoOf(kvCache', k) = <<kvLast'.value, FALSE>>
          ELSE IF KVStepOn("Delete", k)
          THEN /\ GetOf(kvCache', k) = NilValue
               /\ ~HasOf(kvCache', k)
               /\ InfoOf(kvCache', k) = <<NilValue, TRUE>>
          ELSE kvLast'.op # "Reset" =>
               /\ GetOf(kvCache', k) = GetOf(kvCache, k)
               /\ HasOf(kvCache', k) = HasOf(kvCache, k)
               /\ InfoOf(kvCache', k) = InfoOf(kvCache, k)]_vars

\* Info of a tombstoned key has returned a cleared value and deleted =
\* true, after all keys were written and another one was Set to "w"
C14_Witness ==
    /\ kvLast.op = "Info" /\ kvLast.deleted /\ kvLast.value = NilValue
    /\ kvCache[kvLast.key].deleted
    /\ \E k \in Keys : k # kvLast.key /\ HasOf(kvCache, k)
                        /\ GetOf(kvCache, k) = "w"
    /\ Len(kvKeys) = Cardinality(Keys)

\* key k lies in the domain [low, high): a nil low is the start of the key
\* space, a nil high its open end
InDomain(k, low, high) ==
    /\ low.nil \/ BytesCompare(low.b, k) # 1
    /\ high.nil \/ BytesCompare(k, high.b) = -1

\* s holds exactly the keys of S, each once, in ascending byte order
Ascending(s, S) ==
    /\ Range(s) = S
    /\ \A i, j \in 1 .. Len(s) : i < j => BytesCompare(s[i], s[j]) = -1

Reverse(s) == [i \in 1 .. Len(s) |-> s[Len(s) + 1 - i]]

\* C15: on a cache that was never Reset, the iterator that Iterator(low,
\* high) returns yields exactly the keys in [low, high) that were Set or
\* Deleted (the tombstoned ones too), each once, in ascending byte order,
\* and the one of ReverseIterator(low, high) yields the same keys in the
\* reverse order.
C15_IterationComplete ==
    kvLast.op \in {"Iterator", "ReverseIterator"} /\ ~kvWasReset =>
        LET keys == Yield(kvLast.kvi, kvKeys)
            S == {k \in Keys : kvCache[k].ok
                                /\ InDomain(k, kvLast.low, kvLast.high)}
        IN  IF kvLast.op = "Iterator"
            THEN Ascending(keys, S)
            ELSE Ascending(Reverse(keys), S)

\* a reverse iterator over everything has been made after all keys were
\* written in an order that is not ascending, one of them tombstoned
C15_Witness ==
    /\ kvLast.op = "ReverseIterator" /\ ~kvWasReset
    /\ kvLast.low.nil /\ kvLast.high.nil
    /\ Yield(kvLast.kvi, kvKeys) = <<<<1>>, <<0, 1>>, <<0>>>>
    /\ kvCache[<<0, 1>>].deleted
    /\ kvCache[<<1>>].value = "v"

\* C16: after Reset and until the next Set or Delete the cache is empty:
\* Get is nil and Has is false for every key, and the iterators made by
\* Iterator and ReverseIterator yield no key.
C16_ResetDiscardsAll ==
    kvWasReset /\ (\A k \in Keys : ~kvCache[k].ok) =>
        /\ \A k \in Keys : GetOf(kvCache, k) = NilValue
                            /\ ~HasOf(kvCache, k)
        /\ kvLast.op \in {"Iterator", "ReverseIterator"} =>
              Yield(kvLast.kvi, kvKeys) = <<>>

\* the step is a call of WriteTo
WriteToStep == kvLast'.op = "WriteTo"

\* C17: WriteTo calls writer.Set(key, value) exactly once for every live
\* entry, makes no other call for a live key and no Set for any other
\* key, and leaves the cache as it was: Get, Has and Info of every key
\* and the keys of every iterator are the same after it as before.
C17_WriteToKeepsCache ==
    [][WriteToStep =>
          LET w == kvLast'.writer
          IN  /\ \A k \in Keys :
                    HasOf(kvCache, k) =>
                        /\ Cardinality({i \in DOMAIN w : w[i].key = k}) = 1
                        /\ \E i \in DOMAIN w :
                              w[i] = [op |-> "Set", key |-> k,
                                      value |-> GetOf(kvCache, k)]
              /\ \A i \in DOMAIN w :
                    w[i].op = "Set" => HasOf(kvCache, w[i].key)
              /\ \A k \in Keys :
                    /\ GetOf(kvCache', k) = GetOf(kvCache, k)
                    /\ HasOf(kvCache', k) = HasOf(kvCache, k)
                    /\ InfoOf(kvCache', k) = InfoOf(kvCache, k)
              \* an iterator's keys are cut from the sorted kvc.keys
              /\ \A before \in {Sort(kvKeys)}, after \in {Sort(kvKeys')} :
                    /\ after = before
                    /\ \A reverse \in BOOLEAN :
                          LET d == NormaliseDomain(NilBytes, NilBytes)
                          IN  Yield(newIterator(after, d[1], d[2], reverse),
                                    after) =
                              Yield(newIterator(before, d[1], d[2], reverse),
                                    before)]_vars

\* WriteTo has written two live entries and a tombstone and the cache
\* still holds them
C17_Witness ==
    /\ kvLast.op = "WriteTo" /\ Len(kvLast.writer) = Cardinality(Keys)
    /\ Cardinality({i \in DOMAIN kvLast.writer :
                       kvLast.writer[i].op = "Set"}) = 2
    /\ Cardinality({k \in Keys : HasOf(kvCache, k)}) = 2
    /\ \E k \in Keys : kvCache[k].deleted

\* C18: the calls that take the shared lock only read: while two of them
\* hold the shared lock, no step changes kvc.keys or kvc.cache, which the
\* other one reads.
C18_ReadersOnlyRead ==
    [][(\E t \in KVThreads, u \in KVThreads :
            /\ t # u
            /\ kvReaders[t].pc # "out"
            /\ kvReaders[u].pc # "out") =>
          UNCHANGED <<kvKeys, kvCache>>]_vars

\* --------------------------------------------------------- proposal.Cache
\* the step is a call of op with a proposalHash that stands for hash h
PropStepOn(op, h) ==
    /\ propLast'.op = op
    /\ ToProposalHash(propLast'.hash) = h

\* C19: once RemoveProposal(h) has succeeded, and until Reset, h stays
\* removed: GetProposal(h) returns nil without error, UpdateProposal(h)
\* and RemoveProposal(h) return an error and change no record, and no
\* call on any hash and no Sync changes the record of h.
C19_RemovalIsTerminal ==
    [][\A h \in propRemoved :
          propLast'.op # "Reset" =>
              /\ h \in propRemoved'
              /\ proposals'[h] = proposals[h]
              /\ PropStepOn("GetProposal", h) =>
                    propLast'.ballot = NilBallot /\ propLast'.err = "none"
              /\ PropStepOn("UpdateProposal", h)
                 \/ PropStepOn("RemoveProposal", h) =>
                    propLast'.err # "none" /\ proposals' = proposals]_vars

\* UpdateProposal has been refused on a hash that was updated and then
\* removed, called with a slice that is not the one it was removed with
C19_Witness ==
    /\ propLast.op = "UpdateProposal" /\ propLast.err = "removed"
    /\ propLast.hash = <<1, 0, 1>>
    /\ ToProposalHash(propLast.hash) \in propRemoved
    /\ proposals[ToProposalHash(propLast.hash)].updated
    /\ Cardinality(propRemoved) = 1

\* C20: the calls Sync makes on the writer are in ascending byte order of
\* the proposal hash, one hash after the other.
C20_SyncAscending ==
    propLast.op = "Sync" =>
        \A i, j \in 1 .. Len(propLast.writer) :
            i < j => BytesCompare(propLast.writer[i].hash,
                                  propLast.writer[j].hash) = -1

\* Sync has made a call for each of three hashes, one of them a
\* RemoveProposal, without a writer error
C20_Witness ==
    /\ propLast.op = "Sync" /\ propLast.err = "none"
    /\ Len(propLast.writer) = Cardinality(ProposalHashes)
    /\ \E i \in DOMAIN propLast.writer :
          propLast.writer[i].op = "RemoveProposal"
    /\ \E i \in DOMAIN propLast.writer :
          propLast.writer[i].op = "UpdateProposal"

\* the mutations of cache c that are made on hash h, in their order
MutationsOn(c, h) ==
    LET on(m) == ToProposalHash(m.hash) = h
    IN  SelectSeq(replica.muts[c], on)

\* both caches have been given the same mutations and have been Sync'd
\* to writers that returned no error
BothSynced ==
    \A c \in 1 .. 2 : replica.writer[c].done /\ ~replica.writer[c].err

\* C21 as stated: two caches over equal backends that were given the same
\* multiset of mutations, in any order, make the same sequence of writer
\* calls in their Sync.
C21_AnyOrderSameWrites ==
    BothSynced => replica.writer[1].calls = replica.writer[2].calls

\* C21 as amended: two caches over equal backends that were given the
\* same mutations, in any order that keeps the order of the mutations of
\* each hash, make the same sequence of writer calls in their Sync.
C21_SyncDeterminism ==
    BothSynced /\ (\A h \in ProposalHashes :
                      MutationsOn(1, h) = MutationsOn(2, h))
        => replica.writer[1].calls = replica.writer[2].calls

\* both caches were Sync'd after an update of one hash and an update and
\* a removal of another, given in two different orders
C21_Witness ==
    /\ BothSynced
    /\ replica.muts[1] # replica.muts[2]
    /\ \A h \in ProposalHashes : MutationsOn(1, h) = MutationsOn(2, h)
    /\ Len(replica.muts[1]) = 3
    /\ Len(replica.writer[2].calls) = 2
    /\ \E i \in 1 .. 2 : replica.writer[2].calls[i].op = "RemoveProposal"
    /\ \E i \in 1 .. 2 : replica.writer[2].calls[i].op = "UpdateProposal"

\* the call Sync owes the writer for hash h after the mutations cache c
\* was given: RemoveProposal if one of them removes h, else UpdateProposal
\* with the ballot of the last update of h, else none
OwedCalls(c, h) ==
    LET ms == MutationsOn(c, h)
        updates == {i \in 1 .. Len(ms) : ms[i].op = "UpdateProposal"}
    IN  IF \E i \in 1 .. Len(ms) : ms[i].op = "RemoveProposal"
        THEN {[op |-> "RemoveProposal", hash |-> h, ballot |-> NilBallot]}
        ELSE IF updates # {}
        THEN {[op |-> "UpdateProposal", hash |-> h,
               ballot |-> ms[CHOOSE i \in updates :
                                \A j \in updates : j <= i].ballot]}
        ELSE {}

\* C22: Sync makes for each hash exactly the one call its mutations
\* decide (RemoveProposal for a removed hash, also when it was updated
\* before; UpdateProposal with the latest ballot for an updated one; none
\* for a hash that was only read), each hash once; on a writer error it
\* returns the error after the failing call, having made the calls of all
\* smaller hashes and of no larger one.
C22_SyncCalls ==
    \A c \in 1 .. 2 :
        LET w == replica.writer[c]
            owed == UNION {OwedCalls(c, h) : h \in ProposalHashes}
        IN  w.done =>
                /\ Range(w.calls) \subseteq owed
                /\ Cardinality(Range(w.calls)) = Len(w.calls)
                /\ ~w.err => Range(w.calls) = owed
                /\ w.err =>
                      /\ w.calls # <<>>
                      /\ \A made \in Range(w.calls), o \in owed :
                            BytesCompare(o.hash, made.hash) = -1
                                => o \in Range(w.calls)

\* a Sync has stopped on a writer error at its first call, a
\* RemoveProposal of a hash that was updated before it was removed, with
\* the call of a larger hash not made, and the backend's proposal read
C22_Witness ==
    LET w == replica.writer[1]
    IN  /\ w.done /\ w.err
        /\ Len(w.calls) = 1
        /\ w.calls[1].op = "RemoveProposal"
        /\ MutationsOn(1, w.calls[1].hash)[1].op = "UpdateProposal"
        /\ OwedCalls(1, <<1, 0>>) # {}
        /\ replica.cur = 1
        /\ proposals[<<0, 1>>].ok

\* what GetProposal(proposalHash) returns when the backend answers
\* without error
GetReturns(proposalHash) ==
    LET proposalInfo ==
            get(proposalHash, FALSE).proposals[ToProposalHash(proposalHash)]
    IN  IF proposalInfo.removed THEN NilBallot ELSE proposalInfo.ballot

\* C23: Sync does not flush the cache: it changes no record and not the
\* backend, GetProposal returns for every hash what it returned before
\* the Sync, and a Sync that follows a Sync makes the same writer calls.
C23_SyncKeepsCache ==
    [][propLast'.op = "Sync" =>
          /\ proposals' = proposals
          /\ backend' = backend
          /\ \A proposalHash \in HashArgs :
                GetReturns(proposalHash)' = GetReturns(proposalHash)
          /\ propLast.op = "Sync" /\ propLast.err = "none"
             /\ propLast'.err = "none"
                => propLast'.writer = propLast.writer]_vars

\* a Sync without writer error has made a call for an updated and for a
\* removed hash and none for the proposal that was read from the backend
C23_Witness ==
    /\ propLast.op = "Sync" /\ propLast.err = "none"
    /\ Len(propLast.writer) = 2
    /\ \E h \in ProposalHashes : proposals[h].updated /\ ~proposals[h].removed
    /\ \E h \in ProposalHashes : proposals[h].removed
    /\ \E h \in ProposalHashes :
          /\ proposals[h].ok /\ proposals[h].ballot # NilBallot
          /\ ~proposals[h].updated /\ ~proposals[h].removed

\* C24: Reset(backend) leaves no record and binds the backend it is
\* given; the GetProposal that follows it returns what the new backend
\* holds, a Sync that follows it makes no writer call, and from the Reset
\* on UpdateProposal and RemoveProposal are refused as removed only for a
\* hash that was removed after the Reset.
C24_ResetClearsAndRebinds ==
    [][/\ propLast'.op = "Reset" =>
              /\ backend' = propLast'.reader
              /\ \A h \in ProposalHashes : proposals'[h] = NoProposalInfo
       /\ propLast.op = "Reset" /\ propLast'.op = "GetProposal"
          /\ propLast'.err = "none"
              => propLast'.ballot = propLast.reader[propLast'.hash]
       /\ propLast.op = "Reset" /\ propLast'.op = "Sync"
              => propLast'.writer = <<>> /\ propLast'.err = "none"
       /\ propLast'.op \in {"UpdateProposal", "RemoveProposal"}
          /\ propLast'.err = "removed"
              => ToProposalHash(propLast'.hash) \in propRemoved]_vars

\* after a Reset to the backend without proposals, the proposal the
\* first backend held has been updated and removed
C24_Witness ==
    /\ backend = EmptyBackend
    /\ propLast.op = "RemoveProposal" /\ propLast.err = "none"
    /\ propLast.hash = <<0, 1>>
    /\ proposals[<<0, 1>>].updated

\* C25: within a generation GetProposal returns the ballot of the latest
\* successful UpdateProposal of the hash, and the backend's ballot (nil
\* if it has none) for a hash that was neither updated nor removed: a
\* successful UpdateProposal sets what GetProposal returns for its hash,
\* no other call but a RemoveProposal of the hash or a Reset changes it,
\* and GetProposal returns it. No call but Reset changes the backend.
C25_ReadThroughAndLatest ==
    [][/\ propLast'.op # "Reset" => backend' = backend
       /\ propLast'.op = "GetProposal" /\ propLast'.err = "none"
              => propLast'.ballot = GetReturns(propLast'.hash)
       /\ propLast'.op = "UpdateProposal" /\ propLast'.err = "none"
              => \A x \in HashArgs :
                    ToProposalHash(x) = ToProposalHash(propLast'.hash)
                        => GetReturns(x)' = propLast'.ballot
       /\ propLast'.op # "Reset"
              => \A x \in HashArgs :
                    ~(/\ propLast'.op \in
                            {"UpdateProposal", "RemoveProposal"}
                      /\ propLast'.err = "none"
                      /\ ToProposalHash(x) = ToProposalHash(propLast'.hash))
                        => GetReturns(x)' = GetReturns(x)
       /\ \A x \in HashArgs :
             (/\ ~proposals'[ToProposalHash(x)].updated
              /\ ~proposals'[ToProposalHash(x)].removed)
                 => GetReturns(x)' = backend'[x]]_vars

\* GetProposal has returned the ballot that a proposal of the backend
\* was updated with in the cache
C25_Witness ==
    /\ propLast.op = "GetProposal" /\ propLast.err = "none"
    /\ propLast.hash = <<0, 1>>
    /\ propLast.ballot = "b2"
    /\ backend[<<0, 1>>] = "b1"

\* ------------------------------------------------------------ BondContext
\* the errors of the calls Execute makes on the state and the validator
\* set
CollaboratorErrors ==
    {"GetAccountError", "AddPowerError", "UpdateAccountError"}

\* C26: a BondTx of amount a, 0 < a <= balance, from an existing account
\* with the bond permission and a key that is not secp256k1, succeeds
\* when the state and the validator set return no error; the stored
\* balance of the account is then lower by a, the power of its key higher
\* by a, and nothing else in the state or the validator set has changed.
C26_BondSucceeds ==
    [][LET address == bondLast'.address
           amount == bondLast'.amount
           account == accounts[address]
       IN  /\ (/\ bondLast'.kind = "BondTx"
                /\ account.exists /\ account.bond
                /\ account.curve # "secp256k1"
                /\ 0 < amount /\ amount <= account.balance
                /\ bondLast'.ret \notin CollaboratorErrors)
               => bondLast'.ret = "nil"
           /\ bondLast'.ret = "nil"
               => /\ accounts' =
                        [accounts EXCEPT
                            ![address].balance = @ - amount]
                  /\ validators' =
                        [validators EXCEPT ![address] = @ + amount]]_vars

\* account "A" has bonded its whole balance in two bonds, and its key
\* had no power before
C26_Witness ==
    /\ bondLast.ret = "nil" /\ bondLast.address = "A"
    /\ bondHist.validators["A"] = 0
    /\ bondHist.accounts["A"].balance = MaxBalance
    /\ accounts["A"].balance = 0
    /\ validators["A"] = MaxBalance
    /\ bondLast.amount < MaxBalance

\* C27: when Execute returns an error, the stored accounts and the power
\* of every validator are what they were before the call.
C27_ErrorChangesNothing ==
    [][bondLast'.ret \notin {"nil", "panic"}
          => accounts' = accounts /\ validators' = validators]_vars

\* C28: the checks of Execute are made in a fixed order and the first
\* that fails decides the error: the payload is a BondTx, the key of the
\* account is not secp256k1, the account has the bond permission, the
\* amount is not zero, the balance is not below the amount; an amount
\* equal to the balance passes. (For an account that GetAccount returns.)
C28_FirstFailingCheck ==
    [][LET account == accounts[bondLast'.address]
           amount == bondLast'.amount
           ret == bondLast'.ret
           loaded == ret # "GetAccountError" /\ account.exists
       IN  IF bondLast'.kind # "BondTx" THEN ret = "WrongPayload"
           ELSE loaded =>
                IF account.curve = "secp256k1" THEN ret = "Secp256k1"
                ELSE IF ~account.bond THEN ret = "PermissionDenied"
                ELSE IF amount = 0 THEN ret = "ZeroAmount"
                ELSE IF amount > account.balance
                THEN ret = "InsufficientFunds"
                ELSE ret \in {"nil", "AddPowerError",
                              "UpdateAccountError"}]_vars

\* a BondTx of amount zero from an account with a secp256k1 key and
\* without the bond permission has been refused for its key
C28_Witness ==
    /\ bondLast.kind = "BondTx" /\ bondLast.ret = "Secp256k1"
    /\ bondLast.amount = 0
    /\ ~accounts[bondLast.address].bond

RECURSIVE SumOver(_, _)
SumOver(f, S) ==
    IF S = {} THEN 0
    ELSE LET a == CHOOSE a \in S : TRUE
         IN  f[a] + SumOver(f, S \ {a})

Balances(accs) == [a \in Addresses |-> accs[a].balance]

\* C29: after any sequence of executions the power of each validator is
\* its first power plus the amounts of the successful bonds of its
\* account, the balances and the powers add up to what they added up to
\* at first, and no balance is negative.
C29_BondsConserveValue ==
    /\ \A a \in Addresses :
          /\ validators[a] = bondHist.validators[a] + bondHist.bonded[a]
          /\ accounts[a].balance >= 0
    /\ SumOver(Balances(accounts), Addresses)
           + SumOver(validators, Addresses)
       = SumOver(Balances(bondHist.accounts), Addresses)
           + SumOver(bondHist.validators, Addresses)

\* ------------------------------------- proposal.Cache, concurrent callers
\* the record is of the generation the cache is in
Current(info) == raceHeap[info].gen = raceGen.gen

\* C30: however the calls of the goroutines interleave, a hash has at
\* most one record in a generation and the backend has returned its
\* proposal at most once in it; every caller whose get returned in the
\* current generation holds the record the map holds for its hash, and no
\* UpdateProposal or RemoveProposal of such a caller is made on any other
\* record.
C30_OneRecordPerHash ==
    [][/\ \A i, j \in DOMAIN raceHeap' :
             (/\ raceHeap'[i].gen = raceHeap'[j].gen
              /\ raceHeap'[i].hash = raceHeap'[j].hash)
                 => i = j
       /\ \A h \in ProposalHashes : raceGen'.reads[h] <= 1
       /\ \A t \in RaceThreads :
             (/\ raceCalls'[t].pc = "info"
              /\ raceHeap'[raceCalls'[t].info].gen = raceGen'.gen)
                 => raceMap'[ToProposalHash(raceCalls'[t].hash)]
                        = raceCalls'[t].info
       /\ \A t \in RaceThreads :
             (/\ raceCalls[t].pc = "info" /\ raceCalls'[t].pc = "idle"
              /\ Current(raceCalls[t].info))
                 => raceHeap' =
                       [raceHeap EXCEPT
                           ![raceMap[ToProposalHash(raceCalls[t].hash)]] =
                               raceHeap'[raceCalls[t].info]]]_vars

\* after a Reset, two goroutines that found no record of a hash, under
\* two different slices, and took cache.Lock one after the other, hold
\* the one record that was made of it, to update and to remove it
C30_Witness ==
    /\ raceGen.gen = 1
    /\ \A t \in RaceThreads :
          /\ raceCalls[t].pc = "info" /\ raceCalls[t].slow
          /\ raceCalls[t].info = raceMap[<<1, 0>>]
          /\ Current(raceCalls[t].info)
    /\ \E t, u \in RaceThreads : raceCalls[t].hash # raceCalls[u].hash
    /\ \E t \in RaceThreads : raceCalls[t].op = "UpdateProposal"
    /\ \E t \in RaceThreads : raceCalls[t].op = "RemoveProposal"

\* ------------------------------------------------------------------ C31
\* the call is in the loop of SignTxMempool at an input whose signing
\* account it has not locked yet
InSignTxMempoolLoop(p) ==
    /\ pc[p] = "sign"
    /\ ~signed[p]
    /\ idx[p] <= Len(call[p].inputs)

\* every call of S is in ssa.Lock() of an account whose lock is held by a
\* call of S; none of them has returned its unlock yet
CircularWait(S) ==
    /\ S # {}
    /\ \A p \in S :
          /\ InSignTxMempoolLoop(p)
          /\ lock[call[p].inputs[idx[p]]] \in S

\* C31: concurrent SignTxMempool calls are deadlock-free whatever the
\* addresses and the order of their inputs: every call acquires all its
\* signing locks in the end, so the calls never wait for each other's (or
\* their own) locks in a circle, which no unlock could ever break because
\* a call hands out its unlock only after it has taken its last lock.
C31_SigningDeadlockFree == \A S \in SUBSET Procs : ~CircularWait(S)

\* ------------------------------------------------------------------ C32
\* the call returned the error of SignTxMempool: a signing account could
\* not be loaded or locked, or txEnv.Sign failed
SigningFailed(p) ==
    /\ call[p].op \in {"BroadcastTxSync", "BroadcastTxAsync"}
    /\ pc[p] = "done"
    /\ result[p].kind = "SigningError"

\* C32: when SignTxMempool, and so BroadcastTxSync or BroadcastTxAsync,
\* returns an error during signing, no signing-account lock that the call
\* acquired remains held.
C32_SigningErrorReleasesLocks ==
    \A p \in Procs : SigningFailed(p) => \A a \in Addrs : lock[a] # p

\* ------------------------------------------------------------------ C33
\* C33: the CheckTx callback installed by CheckTxSyncRaw never blocks the
\* mempool: whenever the mempool delivers the response of a tx, the
\* response channel has room and the response is in it after the step,
\* also when CheckTxSyncRaw has returned on a cancelled context and
\* nobody reads the channel any more.
C33_CallbackNeverBlocks ==
    [][\A p \in Procs :
          (txStatus[p] = "pending" /\ txStatus'[p] # "pending") =>
              /\ Len(responseCh[p]) < ResponseChSize
              /\ Len(responseCh'[p]) = Len(responseCh[p]) + 1]_vars

\* the response was delivered after CheckTxSyncRaw had returned for the
\* cancelled context
C33_Witness ==
    \E p \in Procs :
        /\ pc[p] = "done"
        /\ result[p].kind = "CheckTxCancelled"
        /\ txStatus[p] \in {"accepted", "rejected"}
        /\ Len(responseCh[p]) = 1

\* ------------------------------------------------------------------ C34
\* a goroutine is inside Lock of the RWMutex of the record: an RLock that
\* begins now waits behind it
LockPending(g, h) ==
    \E u \in ConcAccessors :
        /\ conc.calls[u].pc = "info"
        /\ conc.calls[u].op # "GetProposal"
        /\ conc.calls[u].info = g
        /\ ToProposalHash(conc.calls[u].hash) = h

\* the call can take its next step, also when every RLock waits behind
\* the Lock calls that are pending
CanStep(t) ==
    LET c == conc.calls[t]
    IN  CASE c.pc = "lock" -> CanLock(conc.mu)
          [] c.pc = "info" ->
                IF c.op = "GetProposal"
                THEN /\ CanRLock(ConcInfo(t).mu)
                     /\ ~LockPending(c.info, ToProposalHash(c.hash))
                ELSE CanLock(ConcInfo(t).mu)
          [] c.pc = "sync" ->
                \/ c.i > Len(c.hashes)
                \/ /\ CanRLock(conc.heap[conc.gen][c.hashes[c.i]].mu)
                   /\ ~LockPending(conc.gen, c.hashes[c.i])
          [] OTHER -> c.pc # "idle"

\* the steps the call has left at most
StepsLeft(c) ==
    CASE c.pc = "rlocked" -> 5
      [] c.pc = "lock" -> 4
      [] c.pc = "locked" -> 3
      [] c.pc = "info" -> 2
      [] c.pc = "held" -> 1
      [] c.pc = "reset" -> 1
      [] c.pc = "sync" -> 2 * (Len(c.hashes) - c.i + 1) + 1
      [] c.pc = "syncheld" -> 2 * (Len(c.hashes) - c.i + 1)
      [] OTHER -> 0

Active == {t \in ConcThreads : conc.calls[t].pc # "idle"}

\* C34: the proposal cache is deadlock-free under concurrent GetProposal,
\* UpdateProposal, RemoveProposal, Sync and Reset calls: while calls are
\* in flight one of them can take its next step, every step of a call
\* brings it nearer to its return, and once all calls have returned the
\* lock of the cache and the lock of every record are free, also when
\* Sync stopped on a writer error.
C34_CacheDeadlockFree ==
    /\ [](Active # {} => \E t \in Active : CanStep(t))
    /\ [](Active = {} =>
            /\ conc.mu = NoHolder
            /\ \A g \in Generations, h \in ConcHashes :
                  conc.heap[g][h].mu = NoHolder)
    /\ [][\A t \in ConcThreads :
            /\ t \in Active =>
                  StepsLeft(conc'.calls[t]) <= StepsLeft(conc.calls[t])
            /\ (t \in Active /\ conc'.calls[t].pc # conc.calls[t].pc) =>
                  StepsLeft(conc'.calls[t]) < StepsLeft(conc.calls[t])]_vars

\* Sync holds the lock of the cache and waits for the lock of a record
\* that an UpdateProposal or RemoveProposal holds, while a get waits for
\* the lock of the cache
C34_Witness ==
    \E t \in ConcThreads, u, v \in ConcAccessors :
        /\ conc.calls[t].pc = "sync"
        /\ conc.calls[t].i <= Len(conc.calls[t].hashes)
        /\ conc.heap[conc.gen][conc.calls[t].hashes[conc.calls[t].i]].mu.w = u
        /\ conc.calls[v].pc = "lock"

\* ------------------------------------------------------------------ C35
\* GetProposal returns to the goroutine in this step
GetProposalReturns(t) ==
    /\ conc.calls[t].pc = "held"
    /\ conc.calls[t].op = "GetProposal"
    /\ conc'.calls[t].pc = "idle"

\* Sync returns nil to the goroutine in this step
SyncReturnsNil(t) ==
    /\ conc.calls[t].pc = "sync"
    /\ conc.calls[t].i > Len(conc.calls[t].hashes)
    /\ conc'.calls[t].pc = "idle"

\* C35: no successful proposal update is lost: when UpdateProposal(h, b)
\* has returned without error and no Reset has begun since (nor any other
\* UpdateProposal or RemoveProposal of h returned), the next GetProposal(h)
\* returns b and the next Sync that returns nil has written b for h,
\* whatever Reset and Sync calls ran concurrently with the update.
C35_NoLostUpdate ==
    [][\A t \in ConcThreads, h \in ConcHashes :
          conc.calls[t].expect[h] # NilBallot =>
              /\ GetProposalReturns(t) =>
                    ConcReturns(t).ballot = conc.calls[t].expect[h]
              /\ SyncReturnsNil(t) =>
                    \E k \in DOMAIN conc.calls[t].made :
                        conc.calls[t].made[k] =
                            [op |-> "UpdateProposal", hash |-> ToSlice(h),
                             ballot |-> conc.calls[t].expect[h]]]_vars

\* ------------------------------------------------------------------ C36
\* C36: in every reachable state of the KVCache the key index kvc.keys
\* holds exactly the keys of the entry map kvc.cache, each exactly once.
C36_KeyIndexIsMapKeys ==
    /\ {kvKeys[i] : i \in DOMAIN kvKeys} = {k \in Keys : kvCache[k].ok}
    /\ \A i, j \in DOMAIN kvKeys : i # j => kvKeys[i] # kvKeys[j]

\* ------------------------------------------------------------------ C37
\* C37: a KVCache iterator is stable once created: every key it yields
\* lies in its own [low, high) domain and the keys come out in its order
\* without repetition, also when Set or Delete of other keys and the
\* creation of further iterators happened since it was created.
C37_IteratorStable ==
    held.it.made =>
        /\ \A n \in DOMAIN HeldYield : InDomain(HeldYield[n], held.it.kvi.start,
                                         held.it.kvi.end)
        /\ \A n \in DOMAIN HeldYield :
              n > 1 =>
                  BytesCompare(HeldYield[n - 1], HeldYield[n]) =
                      IF held.it.kvi.reverse THEN 1 ELSE -1
\* ------------------------------------------------------------------ C38
\* C38: when the input account of a BondTx does not exist in state,
\* Execute returns an error (it neither succeeds nor panics) and changes
\* neither any account nor the validator set.
C38_MissingAccountIsError ==
    [][(bondLast'.kind = "BondTx" /\ ~accounts[bondLast'.address].exists)
          => /\ bondLast'.ret \notin {"nil", "panic"}
             /\ accounts' = accounts
             /\ validators' = validators]_vars
====
